---- MODULE Spec2Model ----
(***************************************************************************)
(* A model of the multi-agent scheduling system: the Schedule and its      *)
(* indexes (models/schedule.py), the ComplianceResult and its violations   *)
(* (models/constraints.py), the Compliance Validator's weekly-hours check  *)
(* (agents/compliance_validator.py), the agent lifecycle and its error     *)
(* handling (agents/base_agent.py), the Coordinator's workflow             *)
(* (agents/coordinator.py), the message bus                                *)
(* (communication/message_bus.py), the Data Loader's employee file         *)
(* (agents/data_loader.py), the Staff Matcher (agents/staff_matcher.py)    *)
(* and the Conflict Resolver (agents/conflict_resolver.py).                *)
(*                                                                         *)
(* Each component has its own specification over the shared variables;     *)
(* a specification pins the variables of the other components.             *)
(***************************************************************************)
EXTENDS Integers, Sequences, FiniteSets, TLC

VARIABLES
    \* ---- Schedule (models/schedule.py)
    assignments,      \* Schedule.assignments: the list of assignments
    by_date,          \* Schedule._by_date: date -> list of assignments
    by_employee,      \* Schedule._by_employee: employee id -> list
    by_station,       \* Schedule._by_station: station -> list
    last_call,        \* the last Schedule operation: [op, arg, ret]
    \* ---- ComplianceResult (models/constraints.py)
    result,           \* the ComplianceResult under construction / returned
    res_call,         \* the last ComplianceResult operation: [op, arg]
    score_at_add,     \* history: for each entry of result.violations, the
                      \* score read just before the add_violation that put it there
    \* ---- BaseAgent (agents/base_agent.py)
    agent_state,      \* BaseAgent.agent_state
    error_count,      \* BaseAgent._error_count
    is_active,        \* BaseAgent.is_active
    agent_call,       \* the last lifecycle call: [op, fails, outcome, n]
    \* ---- Coordinator.execute (agents/coordinator.py)
    pc,               \* position in Coordinator.execute
    max_iterations,   \* the max_iterations argument
    iteration,        \* the local variable iteration
    compliance_result,\* self.compliance_result (result of the loop's validation)
    final_result,     \* the local variable final_result
    pending_exc,      \* the exception in flight ("none" when there is none)
    sub_state,        \* lifecycle state of each sub-agent
    events,           \* what execute has done so far, in order
    used_result,      \* which result each later phase was handed
    \* ---- MessageBus (communication/message_bus.py)
    subscribers,      \* MessageBus.subscribers: the registered names, in dict order
    message_history,  \* MessageBus.message_history
    bus_trace,        \* what send has done since the last clear_history, in order
    made,             \* number of Message objects created since the last clear_history
    bus_call,         \* the last MessageBus operation: [op, arg]
    \* ---- DataLoader (agents/data_loader.py)
    employee_file,    \* condition of employee_availability_2weeks.csv
    data,             \* what DataLoaderAgent.execute returned to the Coordinator
    store_id,         \* the store_id argument of Coordinator.execute
    \* ---- StaffMatcher (agents/staff_matcher.py)
    schedule,         \* the entries of self.schedule.assignments, shared by both agents
    employee_hours,   \* StaffMatcherAgent._employee_hours: employee -> week -> half hours
    double_booked,    \* an entry was added for an employee already assigned that date
    slot,             \* position of execute: 0 not called, then the index in Slots
    matcher_call,     \* the last StaffMatcher operation: [op, ret]
    \* ---- RateLimiter (config.py)
    limiter,          \* the RateLimiter: [max_calls, period_seconds, calls]
    clock,            \* time.time(), in ticks
    granted,          \* history: the times at which acquire returned True
    denied,           \* history: the times at which acquire returned False
    limiter_call,     \* the last RateLimiter operation: [op, ret, left]
    \* ---- ConflictResolverAgent.negotiate_resolution
    nego,             \* one negotiation: the proposals, the current one, the
                      \* round, the proposals sent, negotiation_history, the result
    \* ---- two calls of StaffMatcherAgent.execute with the same arguments
    twin,             \* the random values, the forecast, the position of the
                      \* running call, its schedule, tracking and rankings, and
                      \* what the first call returned
    \* ---- retry_with_backoff (config.py)
    retry,            \* one call of a wrapped function: the decorator's
                      \* arguments, attempt, and what was invoked, slept and raised
    \* ---- ConflictResolver (agents/conflict_resolver.py)
    violations,       \* ConflictResolverAgent.violations, the working set
    todo,             \* the rest of the copy the for loop of execute runs over
    resolver_iteration,   \* iteration of execute
    applied_resolutions,  \* len(applied_resolutions) of execute
    removed,          \* violations removed from the working set by this execute
    resolver_pc,      \* "idle", "pass" (inside the for loop) or "returned"
    last_step,        \* what the last iteration of the for loop did
    \* ---- Coordinator.execute on the rosters of the smoke scenario
    smoke,            \* the roster loaded, the random values, the position of
                      \* execute, Schedule.assignments as a list, and the
                      \* validation results
    \* ---- ConflictResolverAgent._apply_resolution on a Schedule with locks
    apply_call,       \* the working set, and the last auto-applied resolution:
                      \* its violation, the list before it, and what it returned
    \* ---- ComplianceValidatorAgent.execute called again on one Schedule
    validation,       \* the forecast, Schedule.assignments, the results of the
                      \* last two calls, and the list as the last call found it
    \* ---- MessageBus.send: one broadcast whose handlers call the bus
    reentry,          \* the entry table of the subscribers dict, the iterator
                      \* of the for loop, the running handler, who was invoked
    \* ---- DemandForecasterAgent.execute called again on one agent
    forecaster,       \* self.demand_forecast, the arguments of the last call
                      \* and what it returned
    \* ---- DataLoaderAgent.execute called again on one agent
    reloader          \* the input files, self.employees, self.managers, what
                      \* the first and the last call returned

schedVars == <<assignments, by_date, by_employee, by_station, last_call>>
resVars   == <<result, res_call, score_at_add>>
agentVars == <<agent_state, error_count, is_active, agent_call>>
coordVars == <<pc, max_iterations, iteration, compliance_result, final_result,
               pending_exc, sub_state, events, used_result>>
busVars   == <<subscribers, message_history, bus_trace, made, bus_call>>
\* the variables of the components other than the four above, without the
\* bus, and with it without the bus
loaderVars == <<employee_file, data, store_id>>
matcherVars == <<schedule, employee_hours, double_booked, slot, matcher_call>>
resolverVars == <<violations, todo, resolver_iteration, applied_resolutions,
                  removed, resolver_pc, last_step>>
pipeVars  == <<matcherVars, resolverVars>>
limiterVars == <<limiter, clock, granted, denied, limiter_call>>
retryVars == <<retry>>
negoVars  == <<nego>>
twinVars  == <<twin>>
smokeVars == <<smoke>>
applyVars == <<apply_call>>
validationVars == <<validation>>
reentryVars == <<reentry>>
forecastVars == <<forecaster>>
reloadVars == <<reloader>>
lateVars  == <<applyVars, validationVars, reentryVars, forecastVars, reloadVars>>
\* for each of these components, the variables of the others
besideApply == <<validationVars, reentryVars, forecastVars, reloadVars>>
besideValidation == <<applyVars, reentryVars, forecastVars, reloadVars>>
besideReentry == <<applyVars, validationVars, forecastVars, reloadVars>>
besideForecast == <<applyVars, validationVars, reentryVars, reloadVars>>
besideReload == <<applyVars, validationVars, reentryVars, forecastVars>>
\* the variables of the workflow's components other than the bus
offBusVars == <<schedVars, resVars, agentVars, coordVars, loaderVars, pipeVars,
                smokeVars>>
utilVars  == <<limiterVars, retryVars, negoVars, twinVars, smokeVars, lateVars>>
sideVars  == <<loaderVars, utilVars>>
extRest   == <<sideVars, pipeVars>>
extVars   == <<busVars, extRest>>
vars      == <<schedVars, resVars, agentVars, coordVars, extVars>>
\* the variables of the workflow's components, and with them those of the
\* components that config.py does not define
flowVars  == <<schedVars, resVars, agentVars, coordVars, busVars,
               loaderVars, pipeVars, smokeVars>>
coreVars  == <<flowVars, lateVars>>
configVars == <<limiterVars, retryVars, negoVars, twinVars>>

----------------------------------------------------------------------------
(* Bounds of the model *)

\* longest assignment list explored for the index operations
MaxSchedLen == 3
\* longest assignment list explored for the weekly-hours check
MaxWeekShifts == 4
\* longest hard-violation / warning list explored for the ComplianceResult
MaxViolations == 3
\* last date of the schedules handed to the consecutive-days check
LastWorkDate == 8
\* largest max_calls and period_seconds (in ticks) a RateLimiter is built with
MaxLimit == 2
MaxPeriod == 2
\* last tick of the clock, and the refused acquire calls explored
MaxClock == 4
MaxDenied == 2
\* largest max_retries a function is wrapped with
MaxRetries == 3
\* the base_delay, max_delay and exponential_base arguments explored (the
\* defaults 1, 30 and 2 among them)
BaseDelays == {1, 3}
MaxDelays == {3, 30}
ExponentialBases == {1, 2, 3}
\* longest list of proposals a negotiation starts from
MaxProposals == 3
\* the values random.uniform(0, 5) returns and the length after which the
\* sequence of them repeats
JitterValues == {0, 2, 5}
JitterPeriod == 2
\* hard violations added to one result before the adding stops
MaxScored == 6
\* largest max_iterations argument explored
MaxIterations == 3
\* number of lifecycle calls explored on one agent
MaxCalls == 6
\* largest number of findings one validation reports in the workflow
MaxFindings == 2
\* largest number of sub-agents whose shutdown() raises in one run
MaxShutdownFailures == 1
\* Message objects created on the bus
MaxMessages == 2
\* employees in a readable employee file
EmployeesOnFile == 2
\* largest required_count of the demand forecast
MaxRequired == 1
\* most violations handed to one ConflictResolver.execute
MaxWorkingSet == 1

----------------------------------------------------------------------------
(* Generic list helpers (Python list semantics) *)

\* x in xs
InList(xs, x) == \E i \in 1..Len(xs) : xs[i] = x

\* number of entries of xs equal to x
Count(xs, x) == Cardinality({i \in 1..Len(xs) : xs[i] = x})

\* list.remove(x): drops the first entry equal to x (caller ensures presence)
ListRemove(xs, x) ==
    LET i == CHOOSE k \in 1..Len(xs) :
                 xs[k] = x /\ \A j \in 1..(k - 1) : xs[j] # x
    IN  [j \in 1..(Len(xs) - 1) |-> IF j < i THEN xs[j] ELSE xs[j + 1]]

Max(a, b) == IF a >= b THEN a ELSE b
Min(a, b) == IF a <= b THEN a ELSE b

----------------------------------------------------------------------------
(* Domain values *)

\* models/employee.py Station: the members of the enum, and Station.value
Stations == {"Station.KITCHEN", "Station.COUNTER"}
StationValue(s) ==
    CASE s = "Station.KITCHEN" -> "Kitchen"
      [] s = "Station.COUNTER" -> "Counter"

\* Shift.from_code: the paid hours of a shift code, in half hours
ShiftHalfHours(code) ==
    CASE code = "1F" -> 18
      [] code = "2F" -> 18
      [] code = "3F" -> 24
      [] code = "S"  -> 17
      [] code = "SC" -> 18
      [] code = "M"  -> 16

\* an Assignment: employee (compared by id), shift (date and type), station,
\* is_locked.  Dataclass equality compares all of them.
Assignment(e, d, t, s, l) ==
    [employee |-> e, date |-> d, shift_type |-> t, station |-> s, is_locked |-> l]

\* the employees, dates and the assignments the index operations are tried on
SchedEmployees == {"e1", "e2"}
SchedDates     == {0, 1}
\* e1 unlocked on every date and station; e2 with a locked / unlocked pair
\* that is otherwise equal, and one more locked assignment
SchedUniverse  ==
    {Assignment("e1", d, "1F", s, FALSE) : d \in SchedDates, s \in Stations}
    \cup {Assignment("e2", 0, "1F", "Station.KITCHEN", l) : l \in BOOLEAN}
    \cup {Assignment("e2", 1, "1F", "Station.COUNTER", TRUE)}

\* the employees of the weekly-hours check and their employment types
HoursEmployees == {"ft", "ca"}
\* the rosters of the smoke scenario: six employees of one employee type,
\* in list order
SmokeRoster(etype) ==
    CASE etype = "Full-Time" -> <<"ft1", "ft2", "ft3", "ft4", "ft5", "ft6">>
      [] etype = "Part-Time" -> <<"pt1", "pt2", "pt3", "pt4", "pt5", "pt6">>
      [] etype = "Casual"    -> <<"ca1", "ca2", "ca3", "ca4", "ca5", "ca6">>
EmployeeTypes == {"Full-Time", "Part-Time", "Casual"}
SmokeStaff == {SmokeRoster(t)[i] : t \in EmployeeTypes, i \in 1..6}
EmployeeTypeOf(e) ==
    CASE e = "ft" -> "Full-Time"
      [] e = "ca" -> "Casual"
      [] e = "pt" -> "Part-Time"
      [] e \in SmokeStaff ->
            CHOOSE t \in EmployeeTypes : \E i \in 1..6 : SmokeRoster(t)[i] = e
      [] OTHER    -> "Unknown"
\* first day of each of the two schedule weeks
HoursDates    == {0, 7}
HoursUniverse ==
    {Assignment(e, d, t, "Station.KITCHEN", FALSE) :
        e \in HoursEmployees, d \in HoursDates, t \in {"1F", "3F", "M"}}

AllEmployees == SchedEmployees \cup HoursEmployees \cup {"zz"}
AllDates     == SchedDates \cup HoursDates \cup 0..LastWorkDate

----------------------------------------------------------------------------
(* Schedule (models/schedule.py) *)

EmptyIndex(keys) == [k \in keys |-> <<>>]

NoAssignment == Assignment("none", -1, "none", "none", FALSE)

ScheduleInit ==
    /\ assignments = <<>>
    /\ by_date = EmptyIndex(AllDates)
    /\ by_employee = EmptyIndex(AllEmployees)
    /\ by_station = EmptyIndex(Stations)
    /\ last_call = [op |-> "init", arg |-> NoAssignment, ret |-> "None"]

\* add_assignment with the by-station index forgotten
add_assignment_skips_station(a) ==
    /\ assignments' = Append(assignments, a)
    /\ by_date' = [by_date EXCEPT ![a.date] = Append(@, a)]
    /\ by_employee' = [by_employee EXCEPT ![a.employee] = Append(@, a)]
    /\ by_station' = by_station
    /\ last_call' = [op |-> "add", arg |-> a, ret |-> "None"]

\* Schedule.add_assignment
add_assignment(a) ==
    /\ assignments' = Append(assignments, a)
    /\ by_date' = [by_date EXCEPT ![a.date] = Append(@, a)]
    /\ by_employee' = [by_employee EXCEPT ![a.employee] = Append(@, a)]
    /\ by_station' = [by_station EXCEPT ![a.station] = Append(@, a)]
    /\ last_call' = [op |-> "add", arg |-> a, ret |-> "None"]

\* remove_assignment without the is_locked test
remove_assignment_ignores_lock(a) ==
    IF InList(assignments, a) /\ InList(by_date[a.date], a)
       /\ InList(by_employee[a.employee], a) /\ InList(by_station[a.station], a)
    THEN /\ assignments' = ListRemove(assignments, a)
         /\ by_date' = [by_date EXCEPT ![a.date] = ListRemove(@, a)]
         /\ by_employee' = [by_employee EXCEPT ![a.employee] = ListRemove(@, a)]
         /\ by_station' = [by_station EXCEPT ![a.station] = ListRemove(@, a)]
         /\ last_call' = [op |-> "remove", arg |-> a, ret |-> "True"]
    ELSE /\ last_call' = [op |-> "remove", arg |-> a, ret |-> "False"]
         /\ UNCHANGED <<assignments, by_date, by_employee, by_station>>

\* Schedule.remove_assignment.  list.remove raises ValueError when the entry
\* is absent; the statements already executed keep their effect.
remove_assignment(a) ==
    IF a.is_locked
    THEN /\ last_call' = [op |-> "remove", arg |-> a, ret |-> "False"]
         /\ UNCHANGED <<assignments, by_date, by_employee, by_station>>
    ELSE IF InList(assignments, a)
    THEN LET okDate == InList(by_date[a.date], a)
             okEmp  == okDate /\ InList(by_employee[a.employee], a)
             okSta  == okEmp /\ InList(by_station[a.station], a)
         IN  /\ assignments' = ListRemove(assignments, a)
             /\ by_date' = IF okDate
                           THEN [by_date EXCEPT ![a.date] = ListRemove(@, a)]
                           ELSE by_date
             /\ by_employee' = IF okEmp
                               THEN [by_employee EXCEPT ![a.employee] = ListRemove(@, a)]
                               ELSE by_employee
             /\ by_station' = IF okSta
                              THEN [by_station EXCEPT ![a.station] = ListRemove(@, a)]
                              ELSE by_station
             /\ last_call' = [op |-> "remove", arg |-> a,
                              ret |-> IF okSta THEN "True" ELSE "ValueError"]
    ELSE /\ last_call' = [op |-> "remove", arg |-> a, ret |-> "False"]
         /\ UNCHANGED <<assignments, by_date, by_employee, by_station>>

\* Schedule.get_assignments_by_date / _by_employee / _by_station
get_assignments_by_date(d) == by_date[d]
get_assignments_by_employee(e) == by_employee[e]
get_assignments_by_station(s) == by_station[s]

----------------------------------------------------------------------------
(* Violation and ComplianceResult (models/constraints.py) *)

\* ConstraintType: the hard categories named by Violation.is_hard_constraint
HardTypes == {"legal", "availability", "skill", "hours_max", "rest_period",
              "consecutive", "min_staff"}
SoftTypes == {"preference", "hours_min", "cost", "coverage", "fairness"}

\* A Violation.  details is the free-form dict (a record keyed by the dict's
\* keys), suggestions the ordered list.  affected_date -1 stands for None.
\* Hours are counted in half hours and the score in thousandths of a point.
Violation(ct, sev, entity, d, details, suggestions) ==
    [constraint_type |-> ct, severity |-> sev, affected_entity |-> entity,
     affected_date |-> d, details |-> details, suggestions |-> suggestions]

\* dict.get(key, default)
DictGet(d, k, default) == IF k \in DOMAIN d THEN d[k] ELSE default

\* d[key] = value
DictSet(d, k, val) == [j \in DOMAIN d \cup {k} |-> IF j = k THEN val ELSE d[j]]

\* Violation.is_hard_constraint
is_hard_constraint(v) == v.constraint_type \in HardTypes

\* ComplianceResult._is_informational_warning
is_informational_warning(v) ==
    \/ DictGet(v.details, "alert_type", "None") = "approaching_limit"
    \/ /\ v.constraint_type = "fairness"
       /\ DictGet(v.details, "gini_coefficient", 0) < 40
    \/ /\ v.constraint_type = "coverage"
       /\ DictGet(v.details, "required_coverage", 0)
            - DictGet(v.details, "current_coverage", 0) <= 1
       /\ DictGet(v.details, "peak_type", "None") = "None"

\* the weights of _calculate_soft_penalty, in tenths
SoftWeight(ct) ==
    CASE ct = "coverage"   -> 8
      [] ct = "hours_min"  -> 5
      [] ct = "fairness"   -> 3
      [] ct = "preference" -> 2
      [] ct = "cost"       -> 4
      [] OTHER             -> 5

\* _calculate_soft_penalty without the zero penalty of informational warnings
calculate_soft_penalty_no_exemption(v) ==
    Min(v.severity * 5 * SoftWeight(v.constraint_type), 500)

\* ComplianceResult._calculate_soft_penalty, in thousandths of a point:
\* severity * 0.05 * weight, capped at 0.5
calculate_soft_penalty(v) ==
    IF is_informational_warning(v)
    THEN 0
    ELSE Min(v.severity * 5 * SoftWeight(v.constraint_type), 500)

\* ComplianceResult(is_compliant=True), created at time now (checked_at)
NewComplianceResult(now) ==
    [is_compliant |-> TRUE, violations |-> <<>>, warnings |-> <<>>,
     pending_approvals |-> <<>>, score |-> 100000, checked_at |-> now]

\* ComplianceResult.add_violation
add_violation(r, v) ==
    IF is_hard_constraint(v)
    THEN [r EXCEPT !.violations = Append(@, v),
                   !.is_compliant = FALSE,
                   !.score = Max(0, @ - v.severity * 2000)]
    ELSE [r EXCEPT !.warnings = Append(@, v),
                   !.score = Max(0, @ - calculate_soft_penalty(v))]

\* the suggestion escalate_to_manager inserts
ApprovalSuggestion(reason) == <<"MANAGER APPROVAL REQUIRED", reason>>

\* the escalation with the approval suggestion appended instead of inserted
Escalated_suggestion_last(v, reason) ==
    [v EXCEPT !.details = DictSet(DictSet(@, "escalation_reason", reason),
                                  "requires_manager_approval", TRUE),
              !.suggestions = Append(@, ApprovalSuggestion(reason))]

\* the violation as escalate_to_manager leaves it
Escalated(v, reason) ==
    [v EXCEPT !.details = DictSet(DictSet(@, "escalation_reason", reason),
                                  "requires_manager_approval", TRUE),
              !.suggestions = <<ApprovalSuggestion(reason)>> \o @]

\* escalate_to_manager without the recomputation of is_compliant
escalate_to_manager_keeps_flag(r, v, reason) ==
    IF InList(r.violations, v)
    THEN [r EXCEPT !.violations = ListRemove(@, v),
                   !.pending_approvals = Append(@, Escalated(v, reason)),
                   !.score = Max(0, Min(100000, @ + v.severity * 2000)
                                      - v.severity * 500)]
    ELSE r

\* ComplianceResult.escalate_to_manager
escalate_to_manager(r, v, reason) ==
    IF InList(r.violations, v)
    THEN LET rest == ListRemove(r.violations, v)
         IN  [r EXCEPT !.violations = rest,
                       !.pending_approvals = Append(@, Escalated(v, reason)),
                       !.is_compliant = (Len(rest) = 0),
                       !.score = Max(0, Min(100000, @ + v.severity * 2000)
                                          - v.severity * 500)]
    ELSE r

----------------------------------------------------------------------------
(* Compliance Validator: weekly hours (agents/compliance_validator.py) *)

\* F(x) with x evaluated once, for a value F uses several times
Bind(x, F(_)) == CHOOSE y \in {F(v) : v \in {x}} : TRUE

\* the distinct entries of a list in order of first appearance (the key order
\* of a dict filled while iterating the list)
Dedup(xs) ==
    LET firsts == SelectSeq([i \in 1..Len(xs) |-> i],
                            LAMBDA i : \A j \in 1..(i - 1) : xs[j] # xs[i])
    IN  [k \in 1..Len(firsts) |-> xs[firsts[k]]]

RECURSIVE SumHalfHours(_)
SumHalfHours(xs) ==
    IF xs = <<>> THEN 0
    ELSE ShiftHalfHours(Head(xs).shift_type) + SumHalfHours(Tail(xs))

\* ComplianceValidatorAgent._get_week_number (the schedule starts on day 0)
get_week_number(d) == d \div 7

\* self.params["hours_limits"], as <<min, max>> in half hours
hours_limits(etype) ==
    CASE etype = "Full-Time" -> <<70, 76>>
      [] etype = "Part-Time" -> <<40, 64>>
      [] etype = "Casual"    -> <<16, 48>>
      [] OTHER               -> <<0, 80>>

\* employee_weekly_hours[e][w] of _check_hours_compliance
WeeklyHalfHours(sched, e, w) ==
    SumHalfHours(SelectSeq(sched,
        LAMBDA a : a.employee = e /\ get_week_number(a.date) = w))

\* key orders of employee_weekly_hours and of employee_weekly_hours[e]
HoursEmployeeOrder(sched) == Dedup([i \in 1..Len(sched) |-> sched[i].employee])
HoursWeekOrder(sched, e) ==
    LET mine == SelectSeq(sched, LAMBDA a : a.employee = e)
    IN  Dedup([i \in 1..Len(mine) |-> get_week_number(mine[i].date)])

\* the Violation _check_hours_compliance builds for hours > max_hours
ExceedsMaxHours(e, w, h, hi) ==
    Violation("hours_max", 9, e, -1,
              [employee_type |-> EmployeeTypeOf(e), current_hours |-> h,
               max_hours |-> hi, week |-> w + 1, excess_hours |-> h - hi],
              << <<"advice", "remove excess hours">>,
                 <<"advice", "reassign some shifts">> >>)

\* the Violation it builds for hours < min_hours
BelowMinHours(e, w, h, lo) ==
    Violation("hours_min", 4, e, -1,
              [employee_type |-> EmployeeTypeOf(e), current_hours |-> h,
               min_hours |-> lo, week |-> w + 1, shortfall |-> lo - h],
              << <<"advice", "add more hours">> >>)

\* the Violation it builds for hours >= 0.85 * max_hours
ApproachingMaxHours(e, w, h, hi) ==
    Violation("hours_max", 2, e, -1,
              [employee_type |-> EmployeeTypeOf(e), current_hours |-> h,
               max_hours |-> hi, remaining_hours |-> hi - h, week |-> w + 1,
               alert_type |-> "approaching_limit"],
              << <<"advice", "avoid additional shifts">>,
                 <<"advice", "hours remaining before max limit">> >>)

\* the if / elif / elif of _check_hours_compliance for one employee and week.
\* hours >= max_hours * 0.85 is 100 * h >= 85 * max; no sum of half hours
\* equals 0.85 * max for any of the limits, so float rounding decides nothing.
check_week_hours(r, e, w, h) ==
    LET lo == hours_limits(EmployeeTypeOf(e))[1]
        hi == hours_limits(EmployeeTypeOf(e))[2]
    IN  IF h > hi THEN add_violation(r, ExceedsMaxHours(e, w, h, hi))
        ELSE IF h < lo THEN add_violation(r, BelowMinHours(e, w, h, lo))
        ELSE IF 100 * h >= 85 * hi
             THEN add_violation(r, ApproachingMaxHours(e, w, h, hi))
        ELSE r

RECURSIVE CheckWeeks(_, _, _, _)
CheckWeeks(r, sched, e, weeks) ==
    IF weeks = <<>> THEN r
    ELSE CheckWeeks(check_week_hours(r, e, Head(weeks),
                                     WeeklyHalfHours(sched, e, Head(weeks))),
                    sched, e, Tail(weeks))

RECURSIVE CheckEmployees(_, _, _, _)
CheckEmployees(r, sched, roster, emps) ==
    IF emps = <<>> THEN r
    ELSE Bind(IF Head(emps) \in roster
              THEN CheckWeeks(r, sched, Head(emps), HoursWeekOrder(sched, Head(emps)))
              ELSE r,
              LAMBDA checked : CheckEmployees(checked, sched, roster, Tail(emps)))

\* ComplianceValidatorAgent._check_hours_compliance on schedule sched, with
\* self.employees holding the ids in roster
check_hours_compliance(r, sched, roster) ==
    CheckEmployees(r, sched, roster, HoursEmployeeOrder(sched))

----------------------------------------------------------------------------
(* MessageBus (communication/message_bus.py) *)

\* the agents constructed on the bus, in the order of their registration
BusAgents == <<"Coordinator", "ComplianceValidator", "ConflictResolver">>

\* a Message; id stands for the identity of the object (creation order)
Message(id, t, s, r, c) ==
    [id |-> id, msg_type |-> t, sender |-> s, receiver |-> r, content |-> c]

NoMessage == Message(0, "none", "none", "None", "none")

\* what a handler sends for a message
Outgoing(t, r, c) == [msg_type |-> t, receiver |-> r, content |-> c]

\* BaseAgent.respond: Message.create_response swaps sender and receiver, the
\* responder then puts its own name as the sender
respond(original, c, t) == Outgoing(t, original.sender, c)

\* BaseAgent._handle_message of each agent: the messages its handler for
\* message m sends, in order.  Coordinator._on_request answers get_status;
\* ComplianceValidatorAgent._on_validation_request runs execute (which
\* reports to the Coordinator and, when not compliant, to the Conflict
\* Resolver) and then responds; every other handler sends nothing.
HandlerSends(name, m) ==
    CASE name = "Coordinator" /\ m.msg_type = "request" /\ m.content = "get_status"
           -> << respond(m, "status", "response") >>
      [] name = "ComplianceValidator" /\ m.msg_type = "validation_request"
              /\ m.content = "compliant_schedule"
           -> << Outgoing("validation_result", "Coordinator", "summary"),
                 respond(m, "summary", "validation_result") >>
      [] name = "ComplianceValidator" /\ m.msg_type = "validation_request"
              /\ m.content = "violating_schedule"
           -> << Outgoing("validation_result", "Coordinator", "summary"),
                 Outgoing("violation", "ConflictResolver", "violations"),
                 respond(m, "summary", "validation_result") >>
      [] OTHER -> <<>>

\* an entry of the trace: what happened, to which handler, for which message
BusEvent(kind, name, id) == <<kind, name, id>>

\* the bus as send sees and leaves it
BusState(subs, hist, trace, n) ==
    [subscribers |-> subs, history |-> hist, trace |-> trace, made |-> n]

Traced(b, kind, name, id) == [b EXCEPT !.trace = Append(@, BusEvent(kind, name, id))]

RECURSIVE bus_send(_, _)
RECURSIVE deliver_each(_, _, _)
RECURSIVE invoke_handler(_, _, _)
RECURSIVE run_sends(_, _, _)

\* send that also invokes the sender's own handler on a broadcast
bus_send_to_all(b, m) ==
    LET b1 == Traced([b EXCEPT !.history = Append(@, m)], "send", "", m.id)
        b2 == IF m.receiver = "None"
              THEN deliver_each(b1, m, b1.subscribers)
              ELSE IF InList(b1.subscribers, m.receiver)
              THEN invoke_handler(b1, m.receiver, m)
              ELSE Traced(b1, "not_found", m.receiver, m.id)
    IN  Traced(b2, "return", "", m.id)

\* send that appends to the history after the routing
bus_send_logs_last(b, m) ==
    LET b1 == Traced(b, "send", "", m.id)
        b2 == IF m.receiver = "None"
              THEN deliver_each(b1, m, SelectSeq(b1.subscribers,
                                                 LAMBDA n : n # m.sender))
              ELSE IF InList(b1.subscribers, m.receiver)
              THEN invoke_handler(b1, m.receiver, m)
              ELSE Traced(b1, "not_found", m.receiver, m.id)
    IN  Traced([b2 EXCEPT !.history = Append(@, m)], "return", "", m.id)

\* MessageBus.send: the message is appended to the history, then routed
bus_send(b, m) ==
    LET b1 == Traced([b EXCEPT !.history = Append(@, m)], "send", "", m.id)
        b2 == IF m.receiver = "None"
              THEN deliver_each(b1, m, SelectSeq(b1.subscribers,
                                                 LAMBDA n : n # m.sender))
              ELSE IF InList(b1.subscribers, m.receiver)
              THEN invoke_handler(b1, m.receiver, m)
              ELSE Traced(b1, "not_found", m.receiver, m.id)
    IN  Traced(b2, "return", "", m.id)

\* the broadcast loop of send over the handlers
deliver_each(b, m, names) ==
    IF names = <<>> THEN b
    ELSE deliver_each(invoke_handler(b, Head(names), m), m, Tail(names))

\* a handler whose sends are carried out after it has returned
invoke_handler_then_send(b, name, m) ==
    run_sends(Traced(Traced(b, "enter", name, m.id), "exit", name, m.id),
              name, HandlerSends(name, m))

\* handler(message): the handler runs, sending its messages, and returns
invoke_handler(b, name, m) ==
    Traced(run_sends(Traced(b, "enter", name, m.id), name, HandlerSends(name, m)),
           "exit", name, m.id)

\* BaseAgent.send, once per message the running handler sends: the Message
\* is created and handed to MessageBus.send
run_sends(b, name, outs) ==
    IF outs = <<>> THEN b
    ELSE LET o == Head(outs)
             m == Message(b.made + 1, o.msg_type, name, o.receiver, o.content)
         IN  run_sends(bus_send([b EXCEPT !.made = @ + 1], m), name, Tail(outs))

\* MessageBus.register: a new name goes last, a known one keeps its place
register(subs, name) == IF InList(subs, name) THEN subs ELSE Append(subs, name)

\* MessageBus.unregister
unregister(subs, name) == SelectSeq(subs, LAMBDA n : n # name)

\* MessageBus() with the agents registered by their constructors
BusInit ==
    /\ subscribers = BusAgents
    /\ message_history = <<>>
    /\ bus_trace = <<>>
    /\ made = 0
    /\ bus_call = [op |-> "init", arg |-> NoMessage]

----------------------------------------------------------------------------
(* BaseAgent lifecycle and error handling (agents/base_agent.py) *)

\* BaseAgent._max_errors
max_errors == 3

\* BaseAgent.__init__: the agent ends construction Idle, active, no errors.
\* agent_call records the last call: its name, whether execute() raised in
\* it, how it ended, the number of calls made and the number of failing
\* safe_execute calls since construction or the last startup().
AgentInit ==
    /\ agent_state = "idle"
    /\ error_count = 0
    /\ is_active = TRUE
    /\ agent_call = [op |-> "init", fails |-> FALSE, outcome |-> "None",
                     n |-> 0, failures |-> 0]

\* BaseAgent.startup
startup ==
    /\ is_active' = TRUE
    /\ error_count' = 0
    /\ agent_state' = "idle"
    /\ agent_call' = [op |-> "startup", fails |-> FALSE, outcome |-> "None",
                      n |-> agent_call.n + 1, failures |-> 0]

\* BaseAgent.activate
activate ==
    /\ is_active' = TRUE
    /\ agent_state' = "idle"
    /\ agent_call' = [agent_call EXCEPT !.op = "activate", !.fails = FALSE,
                          !.outcome = "None", !.n = @ + 1]
    /\ UNCHANGED error_count

\* BaseAgent.deactivate
deactivate ==
    /\ is_active' = FALSE
    /\ agent_state' = "idle"
    /\ agent_call' = [agent_call EXCEPT !.op = "deactivate", !.fails = FALSE,
                          !.outcome = "None", !.n = @ + 1]
    /\ UNCHANGED error_count

\* the name the agent registered on the bus under
AgentName == "ConflictResolver"

\* BaseAgent.shutdown: the state becomes Shutdown, then deactivate() clears
\* is_active and sets the state to Idle, then the name is unregistered
shutdown ==
    /\ is_active' = FALSE
    /\ agent_state' = "idle"
    /\ subscribers' = unregister(subscribers, AgentName)
    /\ agent_call' = [agent_call EXCEPT !.op = "shutdown", !.fails = FALSE,
                          !.outcome = "None", !.n = @ + 1]
    /\ UNCHANGED <<error_count, message_history, bus_trace, made, bus_call>>

\* BaseAgent.health_check
health_check ==
    /\ is_active
    /\ agent_state \notin {"error", "shutdown"}
    /\ error_count < max_errors

\* BaseAgent._handle_error: the error count and state it leaves, and its
\* return value can_continue
handle_error_count(count) == count + 1
\* the cutoff tested with > instead of >=
handle_error_can_continue_late(count) == ~(handle_error_count(count) > max_errors)
handle_error_can_continue(count) == ~(handle_error_count(count) >= max_errors)
handle_error_state(count) ==
    IF handle_error_can_continue(count) THEN "idle" ELSE "error"

\* BaseAgent.safe_execute; fails says whether execute() raises in this call
safe_execute(fails) ==
    /\ UNCHANGED is_active
    /\ IF ~fails
       THEN /\ agent_state' = "completed"
            /\ UNCHANGED error_count
            /\ agent_call' = [agent_call EXCEPT !.op = "safe_execute",
                                  !.fails = FALSE, !.outcome = "result",
                                  !.n = @ + 1]
       ELSE /\ error_count' = handle_error_count(error_count)
            /\ agent_state' = handle_error_state(error_count)
            /\ agent_call' = [agent_call EXCEPT !.op = "safe_execute",
                                  !.fails = TRUE,
                                  !.outcome = IF handle_error_can_continue(error_count)
                                              THEN "None" ELSE "raised",
                                  !.n = @ + 1, !.failures = @ + 1]

----------------------------------------------------------------------------
(* The other Violations the Compliance Validator builds *)

\* _check_availability_compliance
UnavailableViolation(e, d, code) ==
    Violation("availability", 10, e, d,
              [employee_name |-> e, shift_code |-> code],
              << <<"advice", "assign a different employee">>,
                 <<"advice", "change to an available shift code">> >>)

\* _check_skill_compliance
UntrainedViolation(e, d, s) ==
    Violation("skill", 9, e, d,
              [employee_name |-> e, assigned_station |-> StationValue(s)],
              << <<"advice", "assign to qualified station">>,
                 <<"advice", "find a qualified employee">> >>)

\* _check_rest_period_compliance (rest in half hours)
RestViolation(e, d, rest) ==
    Violation("rest_period", 10, e, d,
              [employee_name |-> e, rest_hours |-> rest, min_required |-> 20],
              << <<"advice", "change to a later start time">>,
                 <<"advice", "reassign one of the shifts">> >>)

\* _check_consecutive_days_compliance
ConsecutiveViolation(e, days) ==
    Violation("consecutive", 8, e, -1,
              [employee_name |-> e, consecutive_days |-> days, max_allowed |-> 6],
              << <<"advice", "give a day off">>,
                 <<"advice", "reassign one day">> >>)

\* _check_minimum_staffing: fewer than 2 staff on a day
UnderstaffedDay(d, staff) ==
    Violation("min_staff", 10, "schedule", d,
              [current_staff |-> staff, min_required |-> 2],
              << <<"advice", "add more staff">> >>)

\* _check_minimum_staffing: no staff on a station; details["station"] is
\* station.value, a string
UnstaffedStation(d, s) ==
    Violation("min_staff", 8, "schedule", d,
              [station |-> StationValue(s), current_count |-> 0],
              << <<"advice", "assign at least 1 trained employee">> >>)

\* _check_peak_coverage
PeakUnderstaffed(d, period, current, required) ==
    Violation("coverage", 5, "schedule", d,
              [period |-> period, current_coverage |-> current,
               required_coverage |-> required, peak_type |-> period],
              << <<"advice", "add more staff during peak">> >>)

\* _check_fairness (Gini coefficient in hundredths)
FairnessWarning(gini) ==
    Violation("fairness", 3, "schedule", -1,
              [gini_coefficient |-> gini, fairness_type |-> "workload_imbalance"],
              << <<"advice", "redistribute shifts">> >>)

----------------------------------------------------------------------------
(* Calls on one ComplianceResult *)

NoViolation == Violation("none", 0, "none", -1, [none |-> TRUE], <<>>)

ResultInit ==
    /\ result = NewComplianceResult(0)
    /\ res_call = [op |-> "init", arg |-> NoViolation, reason |-> ""]
    /\ score_at_add = <<>>

\* freshly built violations handed to add_violation
ViolationInputs ==
    { ExceedsMaxHours("ft", 0, 90, 76),
      ApproachingMaxHours("ft", 0, 72, 76),
      BelowMinHours("pt", 1, 18, 40),
      UnstaffedStation(0, "Station.KITCHEN"),
      PeakUnderstaffed(0, "lunch_peak", 1, 3),
      FairnessWarning(38) }

EscalationReasons == {"manual review required", "overtime authorization"}

SeqRange(xs) == {xs[i] : i \in 1..Len(xs)}

\* list.index(x): the position of the first entry equal to x
FirstIndex(xs, x) == CHOOSE i \in 1..Len(xs) : xs[i] = x /\ \A j \in 1..(i - 1) : xs[j] # x

\* the list without its i-th entry
DropAt(xs, i) == SubSeq(xs, 1, i - 1) \o SubSeq(xs, i + 1, Len(xs))

\* result.add_violation(v)
AddViolationCall(v) ==
    /\ result' = add_violation(result, v)
    /\ res_call' = [op |-> "add", arg |-> v, reason |-> ""]

\* result.escalate_to_manager(v, reason)
EscalateCall(v, reason) ==
    /\ result' = escalate_to_manager(result, v, reason)
    /\ res_call' = [op |-> "escalate", arg |-> v, reason |-> reason]

ResultSize ==
    Len(result.violations) + Len(result.warnings) + Len(result.pending_approvals)

ComplianceNext ==
    \/ \E v \in ViolationInputs :
          /\ ResultSize < MaxViolations
          /\ AddViolationCall(v)
          /\ UNCHANGED <<score_at_add, schedVars, agentVars, coordVars, extVars>>
    \/ \E v \in ViolationInputs \cup SeqRange(result.violations)
                  \cup SeqRange(result.pending_approvals),
          reason \in EscalationReasons :
          /\ EscalateCall(v, reason)
          /\ UNCHANGED <<score_at_add, schedVars, agentVars, coordVars, extVars>>

----------------------------------------------------------------------------
(* Hard violations added to and escalated from one ComplianceResult *)

\* freshly built hard violations handed to add_violation
ScoreInputs ==
    { ExceedsMaxHours("ft", 0, 90, 76),
      UnstaffedStation(0, "Station.KITCHEN") }

\* the history kept beside result.violations: the score before each entry's add
ScoreNext ==
    \/ \E v \in ScoreInputs :
          /\ Len(result.violations) + Len(result.pending_approvals) < MaxScored
          /\ AddViolationCall(v)
          /\ score_at_add' = Append(score_at_add, result.score)
          /\ UNCHANGED <<schedVars, agentVars, coordVars, extVars>>
    \/ \E v \in SeqRange(result.violations) :
          /\ EscalateCall(v, "manual review required")
          /\ score_at_add' = DropAt(score_at_add, FirstIndex(result.violations, v))
          /\ UNCHANGED <<schedVars, agentVars, coordVars, extVars>>

----------------------------------------------------------------------------
(* Soft and hard violations added to one ComplianceResult *)

\* _check_opening_closing_coverage: no opening staff on the date (no coverage counts,
\* no peak_type in details)
OpeningUncovered(d) ==
    Violation("coverage", 6, "schedule", d,
              [period |-> "opening", coverage_type |-> "opening"],
              << <<"advice", "assign crew member to opening shift">> >>)

\* an approaching-limit alert filed under a soft category
SoftAlert ==
    Violation("preference", 2, "ft", 0,
              [alert_type |-> "approaching_limit"], <<>>)

\* a coverage shortfall of severity 10 outside the peaks: the largest
\* uncapped soft penalty of a 1..10 severity
WideShortfall ==
    Violation("coverage", 10, "schedule", 0,
              [current_coverage |-> 0, required_coverage |-> 2], <<>>)

SoftInputs ==
    { BelowMinHours("pt", 1, 18, 40),
      PeakUnderstaffed(0, "lunch_peak", 1, 3),
      FairnessWarning(38), FairnessWarning(45),
      OpeningUncovered(0), SoftAlert, WideShortfall }

SoftNext ==
    \E v \in SoftInputs \cup ScoreInputs :
       /\ ResultSize < MaxViolations
       /\ AddViolationCall(v)
       /\ UNCHANGED <<score_at_add, schedVars, agentVars, coordVars, extVars>>

----------------------------------------------------------------------------
(* Calls on one Schedule *)

ScheduleNext ==
    \/ \E a \in SchedUniverse :
          /\ Len(assignments) < MaxSchedLen
          /\ add_assignment(a)
          /\ UNCHANGED <<resVars, agentVars, coordVars, extVars>>
    \/ \E a \in SchedUniverse :
          /\ remove_assignment(a)
          /\ UNCHANGED <<resVars, agentVars, coordVars, extVars>>

----------------------------------------------------------------------------
(* The weekly-hours check run on a schedule *)

\* the validator runs _check_hours_compliance on a fresh result
RunHoursCheck ==
    /\ res_call.op = "init"
    /\ result' = check_hours_compliance(NewComplianceResult(1), assignments,
                                        HoursEmployees)
    /\ res_call' = [op |-> "check_hours", arg |-> NoViolation, reason |-> ""]
    /\ UNCHANGED score_at_add

HoursNext ==
    \/ \E a \in HoursUniverse :
          /\ res_call.op = "init"
          /\ Len(assignments) < MaxWeekShifts
          /\ add_assignment(a)
          /\ UNCHANGED <<resVars, agentVars, coordVars, extVars>>
    \/ RunHoursCheck /\ UNCHANGED <<schedVars, agentVars, coordVars, extVars>>

----------------------------------------------------------------------------
(* Calls on one agent *)

\* a further call is made while fewer than MaxCalls were
MoreCalls == agent_call.n < MaxCalls

AgentNext ==
    \/ MoreCalls /\ startup /\ UNCHANGED <<schedVars, resVars, coordVars, extVars>>
    \/ MoreCalls /\ activate /\ UNCHANGED <<schedVars, resVars, coordVars, extVars>>
    \/ MoreCalls /\ deactivate /\ UNCHANGED <<schedVars, resVars, coordVars, extVars>>
    \/ MoreCalls /\ shutdown /\ UNCHANGED <<schedVars, resVars, coordVars, extRest>>
    \/ \E fails \in BOOLEAN :
          MoreCalls /\ safe_execute(fails) /\ UNCHANGED <<schedVars, resVars, coordVars, extVars>>

----------------------------------------------------------------------------
(* Calls on the MessageBus *)

\* the names register and unregister are called with, the senders (the
\* Manager is not an agent on the bus) and the receivers (None for a
\* broadcast; the ApprovalAgent is never registered)
BusNames     == {"Coordinator", "ComplianceValidator"}
BusSenders   == {"Coordinator", "Manager"}
BusReceivers == {"None", "Coordinator", "ComplianceValidator", "ApprovalAgent"}
BusContents  ==
    { <<"request", "get_status">>,
      <<"validation_request", "violating_schedule">> }

\* bus.register(name, handler)
BusRegister(name) ==
    /\ subscribers' = register(subscribers, name)
    /\ bus_call' = [op |-> "registry", arg |-> NoMessage]
    /\ UNCHANGED <<message_history, bus_trace, made>>

\* bus.unregister(name)
BusUnregister(name) ==
    /\ subscribers' = unregister(subscribers, name)
    /\ bus_call' = [op |-> "registry", arg |-> NoMessage]
    /\ UNCHANGED <<message_history, bus_trace, made>>

\* a Message is created and bus.send(message) runs to its return
BusSend(t, s, r, c) ==
    LET m == Message(made + 1, t, s, r, c)
        b == bus_send(BusState(subscribers, message_history, bus_trace, made + 1), m)
    IN  /\ subscribers' = b.subscribers
        /\ message_history' = b.history
        /\ bus_trace' = b.trace
        /\ made' = b.made
        /\ bus_call' = [op |-> "send", arg |-> m]

\* MessageBus.clear_history; the trace and the numbering of the messages
\* restart with the history
clear_history ==
    /\ message_history' = <<>>
    /\ bus_trace' = <<>>
    /\ made' = 0
    /\ bus_call' = [op |-> "clear_history", arg |-> NoMessage]
    /\ UNCHANGED subscribers

BusNext ==
    \/ \E name \in BusNames :
          BusRegister(name) /\ UNCHANGED <<schedVars, resVars, agentVars, coordVars, extRest>>
    \/ \E name \in BusNames :
          BusUnregister(name) /\ UNCHANGED <<schedVars, resVars, agentVars, coordVars, extRest>>
    \/ \E tc \in BusContents, s \in BusSenders, r \in BusReceivers :
          /\ made < MaxMessages
          /\ BusSend(tc[1], s, r, tc[2])
          /\ UNCHANGED <<schedVars, resVars, agentVars, coordVars, extRest>>
    \/ /\ bus_call.op = "send"
       /\ clear_history
       /\ UNCHANGED <<schedVars, resVars, agentVars, coordVars, extRest>>

----------------------------------------------------------------------------
(* Coordinator (agents/coordinator.py) *)

\* the list of _startup_all_agents
StartupOrder ==
    <<"DataLoader", "DemandForecaster", "StaffMatcher", "ComplianceValidator",
      "ConflictResolver", "Explainer", "RosterGenerator">>

\* the list of _shutdown_all_agents
ShutdownOrder ==
    <<"RosterGenerator", "Explainer", "ConflictResolver", "ComplianceValidator",
      "StaffMatcher", "DemandForecaster", "DataLoader">>

SubAgents == SeqRange(StartupOrder)

\* the employees handed to the escalation phase: skills are sets of Station
\* members, availability is per date and shift code
CoordEmployees == <<"e1", "e2">>
EmployeeSkills(e) ==
    IF e = "e1" THEN {"Station.KITCHEN"}
    ELSE {"Station.KITCHEN", "Station.COUNTER"}
PrimaryStation(e) == IF e = "e1" THEN "Station.KITCHEN" ELSE "Station.COUNTER"
\* Employee.is_available
is_available(e, d, code) == e = "e1" /\ d = 0 /\ code \in {"1F", "2F"}
\* Employee.can_work_station
can_work_station(e, station) == station \in EmployeeSkills(e)

\* x.value is defined for the members of Station only
HasValue(x) == x \in Stations

\* CoordinatorAgent._analyze_staffing_gap.  Every branch after the early
\* return formats station.value; "AttributeError" stands for the exception
\* that evaluating it raises when station is not a Station member.
analyze_staffing_gap(v, emps) ==
    LET station == DictGet(v.details, "station", "None")
        capable == SelectSeq(emps, LAMBDA e :
                       /\ can_work_station(e, station)
                       /\ \E code \in {"1F", "2F", "3F"} :
                              is_available(e, v.affected_date, code))
        available_primary == SelectSeq(capable, LAMBDA e : PrimaryStation(e) = station)
        available_cross   == SelectSeq(capable, LAMBDA e : PrimaryStation(e) # station)
    IN  IF station = "None" \/ station = "" \/ v.affected_date = -1
        THEN "unable to find suitable replacement"
        ELSE IF ~HasValue(station) THEN "AttributeError"
        ELSE IF available_primary = <<>> /\ available_cross = <<>>
             THEN "no qualified employees available"
        ELSE IF available_primary = <<>> THEN "no primary staff available"
        ELSE "available staff would exceed limits"

\* CoordinatorAgent._generate_escalation_reason
generate_escalation_reason(v, emps) ==
    CASE v.constraint_type = "min_staff"   -> analyze_staffing_gap(v, emps)
      [] v.constraint_type = "rest_period" -> "rest period conflict could not be resolved"
      [] v.constraint_type = "hours_max"   -> "employee approaching or exceeding hours limit"
      [] v.constraint_type = "consecutive" -> "too many consecutive days"
      [] OTHER -> "manual review required"

\* the loop of _handle_manager_escalations over the copied violation list: the
\* result it leaves and the exception that ended it ("none" if it completed)
RECURSIVE EscalateEach(_, _, _)
EscalateEach(r, vs, emps) ==
    IF vs = <<>>
    THEN [result |-> r, exc |-> "none"]
    ELSE LET reason == generate_escalation_reason(Head(vs), emps)
         IN  IF reason = "AttributeError"
             THEN [result |-> r, exc |-> "AttributeError"]
             ELSE EscalateEach(escalate_to_manager(r, Head(vs), reason),
                               Tail(vs), emps)

\* an escalation phase that takes the staffing violations only
handle_manager_escalations_staffing_only(r, emps) ==
    EscalateEach(r, SelectSeq(r.violations,
                              LAMBDA v : v.constraint_type = "min_staff"), emps)

\* CoordinatorAgent._handle_manager_escalations
handle_manager_escalations(r, emps) == EscalateEach(r, r.violations, emps)

\* ComplianceValidatorAgent.execute: the result is built by add_violation from
\* what the checks find, in the order of the checks
\* (the list is taken by halves, the first half before the second: the
\* calls of add_violation and their order are those of the loop)
RECURSIVE AddAll(_, _)
AddAll(r, vs) ==
    IF vs = <<>> THEN r
    ELSE IF Len(vs) = 1 THEN add_violation(r, vs[1])
    ELSE Bind(AddAll(r, SubSeq(vs, 1, Len(vs) \div 2)),
              LAMBDA added : AddAll(added, SubSeq(vs, Len(vs) \div 2 + 1, Len(vs))))

validator_execute(findings, now) == AddAll(NewComplianceResult(now), findings)

\* the entries of xs at the positions in I, in order
RECURSIVE PickFrom(_, _, _)
PickFrom(xs, I, k) ==
    IF k > Len(xs) THEN <<>>
    ELSE (IF k \in I THEN <<xs[k]>> ELSE <<>>) \o PickFrom(xs, I, k + 1)

\* what one validation may find: at most MaxFindings of the findings in all,
\* in the order of the checks
FindingLists(all) ==
    {PickFrom(all, I, 1) :
        I \in {J \in SUBSET (1..Len(all)) : Cardinality(J) <= MaxFindings}}

\* findings of every hard type the validator reports, and one soft warning
RichFindings ==
    << UnavailableViolation("e1", 0, "1F"),
       UntrainedViolation("e1", 0, "Station.COUNTER"),
       ExceedsMaxHours("ft", 0, 90, 76),
       BelowMinHours("pt", 1, 18, 40),
       RestViolation("e2", 1, 17),
       ConsecutiveViolation("e2", 7),
       UnderstaffedDay(0, 1),
       UnstaffedStation(0, "Station.KITCHEN") >>

\* a hard finding, a soft one, and one whose escalation raises
SmallFindings ==
    << UnavailableViolation("e1", 0, "1F"),
       BelowMinHours("pt", 1, 18, 40),
       UnstaffedStation(0, "Station.KITCHEN") >>

\* checked_at 0 stands for None: no validation has produced a result yet
NoResult == NewComplianceResult(0)

\* number of validations run so far (the clock of checked_at)
ValidationsRun == Cardinality({i \in 1..Len(events) : events[i][1] = "validate"})

Event(kind, who, detail) == <<kind, who, detail>>

CoordInit(budgets) ==
    /\ pc = "called"
    /\ max_iterations \in budgets
    /\ iteration = 0
    /\ compliance_result = NoResult
    /\ final_result = NoResult
    /\ pending_exc = "none"
    /\ sub_state = [a \in SubAgents |-> "idle"]
    /\ events = <<>>
    /\ used_result = [escalation |-> 0, explain |-> 0, export |-> 0, report |-> 0]

\* the conditions employee_availability_2weeks.csv can be in: readable with
\* employee rows, not there, not readable (read_csv raises), not parseable
\* (read_csv or a row access raises), or parseable with no row that has
\* a numeric employee id
EmployeeFiles == {"ok", "missing", "unreadable", "malformed", "no_valid_rows"}


\* DataLoaderAgent._load_employees: the exception it raises ("none" when it
\* returns) and the number of employees it loaded
load_employees(file) ==
    CASE file = "ok"            -> [exc |-> "none", employees |-> EmployeesOnFile]
      [] file = "missing"       -> [exc |-> "none", employees |-> 0]
      [] file = "no_valid_rows" -> [exc |-> "none", employees |-> 0]
      [] file = "unreadable"    -> [exc |-> "Exception", employees |-> 0]
      [] file = "malformed"     -> [exc |-> "Exception", employees |-> 0]

\* no bundle was returned
NoData == [employee_count |-> -1, store_count |-> -1, stores |-> {}]

\* DataLoaderAgent._load_stores: the keys of self.stores
load_stores == {"Store_1", "Store_2"}

\* the store ids Coordinator.execute is called with: the default and one no
\* store has
StoreIds == {"Store_1", "Store_3"}

\* DataLoaderAgent.execute: the loaders run in order; only _load_employees
\* lets an exception out; the two pre-defined stores are always there
data_loader_execute(file) ==
    LET emp == load_employees(file)
    IN  IF emp.exc # "none"
        THEN [exc |-> emp.exc, data |-> NoData]
        ELSE [exc |-> "none",
              data |-> [employee_count |-> emp.employees,
                        store_count |-> Cardinality(load_stores),
                        stores |-> load_stores]]

LoaderInit(files, ids) ==
    /\ employee_file \in files
    /\ store_id \in ids
    /\ data = NoData

\* a phase that calls one agent: it returns (go to next) or raises exc
Phase(at, name, next, exc) ==
    /\ pc = at
    /\ \E ok \in BOOLEAN :
          /\ events' = Append(events, Event("phase", name, IF ok THEN "ok" ELSE exc))
          /\ pc' = IF ok THEN next ELSE "except"
          /\ pending_exc' = IF ok THEN "none" ELSE exc
    /\ UNCHANGED <<max_iterations, iteration, compliance_result, final_result,
                   sub_state, used_result, agentVars>>

\* _startup_all_agents
StartupAllAgents ==
    /\ pc = "called"
    /\ events' = events \o [i \in 1..Len(StartupOrder) |->
                                Event("startup", StartupOrder[i], "")]
    /\ sub_state' = [a \in SubAgents |-> "started"]
    /\ pc' = "phase1"
    /\ UNCHANGED <<max_iterations, iteration, compliance_result, final_result,
                   pending_exc, used_result, agentVars>>

\* PHASE 1: data loading; a failure is re-raised as RuntimeError
DataLoading ==
    /\ pc = "phase1"
    /\ LET out == data_loader_execute(employee_file)
           ok  == out.exc = "none"
       IN  /\ events' = Append(events, Event("phase", "data_loading",
                                             IF ok THEN "ok" ELSE "RuntimeError"))
           /\ pc' = IF ok THEN "store_check" ELSE "except"
           /\ pending_exc' = IF ok THEN "none" ELSE "RuntimeError"
           /\ data' = out.data
    /\ UNCHANGED <<max_iterations, iteration, compliance_result, final_result,
                   sub_state, used_result, agentVars, employee_file, store_id>>

\* store = stores.get(store_id) with every store found
StoreLookup_finds_any ==
    /\ pc = "store_check"
    /\ events' = Append(events, Event("phase", "store_lookup", "ok"))
    /\ pc' = "phase2"
    /\ pending_exc' = "none"
    /\ UNCHANGED <<max_iterations, iteration, compliance_result, final_result,
                   sub_state, used_result, agentVars>>

\* store = stores.get(store_id); if not store: raise ValueError
StoreLookup ==
    /\ pc = "store_check"
    /\ LET found == store_id \in data.stores
       IN  /\ events' = Append(events, Event("phase", "store_lookup",
                                             IF found THEN "ok" ELSE "ValueError"))
           /\ pc' = IF found THEN "phase2" ELSE "except"
           /\ pending_exc' = IF found THEN "none" ELSE "ValueError"
    /\ UNCHANGED <<max_iterations, iteration, compliance_result, final_result,
                   sub_state, used_result, agentVars>>

\* PHASE 2: demand forecasting
DemandForecasting == Phase("phase2", "demand_forecasting", "phase3", "Exception")

\* PHASE 3: initial staff matching; iteration = 0 follows it
StaffMatching == Phase("phase3", "staff_matching", "loop", "Exception")

\* the while condition with <= instead of <
loop_continues_one_more(iter, budget) == iter <= budget

\* PHASE 4: the condition of the while loop
loop_continues(iter, budget) == iter < budget

\* PHASE 4: where the loop goes after a validation (break when compliant)
after_validation(r) == IF r.is_compliant THEN "final_validation" ELSE "resolve"

\* PHASE 4: where the loop goes after the resolver (break when it applied
\* no resolution)
after_resolution(applied) == IF applied = 0 THEN "final_validation" ELSE "loop"

\* PHASE 4: iteration += 1, then the validator runs on the current schedule
LoopValidate(all) ==
    /\ pc = "loop"
    /\ loop_continues(iteration, max_iterations)
    /\ iteration' = iteration + 1
    /\ \/ /\ events' = Append(events, Event("validate", "loop", "Exception"))
          /\ pc' = "except"
          /\ pending_exc' = "Exception"
          /\ UNCHANGED compliance_result
       \/ \E fs \in FindingLists(all) :
             LET r == validator_execute(fs, ValidationsRun + 1)
             IN  /\ compliance_result' = r
                 /\ events' = Append(events,
                        Event("validate", "loop",
                              IF r.is_compliant THEN "compliant" ELSE "non-compliant"))
                 /\ pc' = after_validation(r)
                 /\ UNCHANGED pending_exc
    /\ UNCHANGED <<max_iterations, final_result, sub_state, used_result, agentVars>>

\* PHASE 4: the while condition is false
LoopExit ==
    /\ pc = "loop"
    /\ ~loop_continues(iteration, max_iterations)
    /\ pc' = "final_validation"
    /\ UNCHANGED <<max_iterations, iteration, compliance_result, final_result,
                   pending_exc, sub_state, events, used_result, agentVars>>

\* PHASE 4: the resolver runs on the loop's result and applies some
\* resolutions, or none
Resolve ==
    /\ pc = "resolve"
    /\ \/ /\ events' = Append(events, Event("resolve", "", "Exception"))
          /\ pc' = "except"
          /\ pending_exc' = "Exception"
       \/ \E applied \in 0..1 :
             /\ events' = Append(events,
                    Event("resolve", "", IF applied = 0 THEN "none" ELSE "some"))
             /\ pc' = after_resolution(applied)
             /\ UNCHANGED pending_exc
    /\ UNCHANGED <<max_iterations, iteration, compliance_result, final_result,
                   sub_state, used_result, agentVars>>

\* PHASE 5: the final validation
FinalValidation(all) ==
    /\ pc = "final_validation"
    /\ \/ /\ events' = Append(events, Event("validate", "final", "Exception"))
          /\ pc' = "except"
          /\ pending_exc' = "Exception"
          /\ UNCHANGED final_result
       \/ \E fs \in FindingLists(all) :
             LET r == validator_execute(fs, ValidationsRun + 1)
             IN  /\ final_result' = r
                 /\ events' = Append(events,
                        Event("validate", "final",
                              IF r.is_compliant THEN "compliant" ELSE "non-compliant"))
                 /\ pc' = "escalation"
                 /\ UNCHANGED pending_exc
    /\ UNCHANGED <<max_iterations, iteration, compliance_result, sub_state,
                   used_result, agentVars>>

\* the loop's result handed on instead of the final one
reported_result_from_loop == compliance_result

\* the result handed to the escalation, the explainer, the roster generator
\* and the report
reported_result == final_result

\* the results dict of the final report: success and the compliance counts
results_of(r) ==
    [success |-> r.is_compliant,
     compliance |-> [is_compliant |-> r.is_compliant,
                     violations |-> Len(r.violations),
                     warnings |-> Len(r.warnings),
                     pending_approvals |-> Len(r.pending_approvals)]]

\* PHASE 5.5: manager escalation of the final result
Escalation ==
    /\ pc = "escalation"
    /\ LET out == handle_manager_escalations(reported_result, CoordEmployees)
       IN  /\ final_result' = out.result
           /\ events' = Append(events,
                  Event("escalation", "", IF out.exc = "none" THEN "done" ELSE out.exc))
           /\ pc' = IF out.exc = "none" THEN "explain" ELSE "except"
           /\ pending_exc' = out.exc
    /\ used_result' = [used_result EXCEPT !.escalation = reported_result.checked_at]
    /\ UNCHANGED <<max_iterations, iteration, compliance_result, sub_state, agentVars>>

\* a later phase that is handed the result
ResultPhase(at, name, next) ==
    /\ pc = at
    /\ used_result' = [used_result EXCEPT ![name] = reported_result.checked_at]
    /\ \E ok \in BOOLEAN :
          /\ events' = Append(events, Event("phase", name, IF ok THEN "ok" ELSE "Exception"))
          /\ pc' = IF ok THEN next ELSE "except"
          /\ pending_exc' = IF ok THEN "none" ELSE "Exception"
    /\ UNCHANGED <<max_iterations, iteration, compliance_result, final_result,
                   sub_state, agentVars>>

\* PHASE 6: explanations
Explain == ResultPhase("explain", "explain", "export")

\* PHASE 7: roster export
Export == ResultPhase("export", "export", "report")

\* the final report is assembled from the result and printed, the COMPLETE
\* broadcast is sent, and execute returns (through the finally block); an
\* exception on the way goes to the except block
FinalReport ==
    /\ pc = "report"
    /\ used_result' = [used_result EXCEPT !.report = reported_result.checked_at]
    /\ \E ok \in BOOLEAN :
          /\ events' = IF ok
                        THEN events \o << Event("phase", "report", "ok"),
                                          Event("broadcast", "COMPLETE", "") >>
                        ELSE Append(events, Event("phase", "report", "Exception"))
          /\ pc' = IF ok THEN "finally" ELSE "except"
          /\ pending_exc' = IF ok THEN "none" ELSE "Exception"
    /\ UNCHANGED <<max_iterations, iteration, compliance_result, final_result,
                   sub_state, agentVars>>

\* except Exception: log, self._handle_error(e, ...), raise
ExceptBlock ==
    /\ pc = "except"
    /\ events' = Append(events, Event("handle_error", "Coordinator", pending_exc))
    /\ error_count' = handle_error_count(error_count)
    /\ agent_state' = handle_error_state(error_count)
    /\ agent_call' = [agent_call EXCEPT !.op = "handle_error", !.fails = TRUE,
                          !.outcome = "raised", !.n = @ + 1]
    /\ pc' = "finally"
    /\ UNCHANGED <<is_active, max_iterations, iteration, compliance_result,
                   final_result, pending_exc, sub_state, used_result>>

\* _shutdown_all_agents without the try / except: the first failing
\* shutdown() ends the loop
RECURSIVE ShutdownUntilFailure(_, _, _)
ShutdownUntilFailure(evts, failing, i) ==
    IF i > Len(ShutdownOrder) THEN evts
    ELSE IF ShutdownOrder[i] \in failing
         THEN Append(evts, Event("shutdown_failed", ShutdownOrder[i], ""))
         ELSE ShutdownUntilFailure(
                  Append(evts, Event("shutdown", ShutdownOrder[i], "")), failing, i + 1)
shutdown_all_agents_unprotected(evts, failing) ==
    ShutdownUntilFailure(evts, failing, 1)

\* _shutdown_all_agents: shutdown() is called on each agent of the list; an
\* exception from it (the agents in failing) is caught and logged
shutdown_all_agents(evts, failing) ==
    evts \o [i \in 1..Len(ShutdownOrder) |->
                Event(IF ShutdownOrder[i] \in failing THEN "shutdown_failed"
                      ELSE "shutdown", ShutdownOrder[i], "")]

\* finally: shut all agents down, then return or let the exception go on
FinallyBlock ==
    /\ pc = "finally"
    /\ \E failing \in {F \in SUBSET SubAgents : Cardinality(F) <= MaxShutdownFailures} :
          events' = shutdown_all_agents(events, failing)
    /\ sub_state' = [a \in SubAgents |->
                        IF \E i \in 1..Len(events') :
                               events'[i][1] \in {"shutdown", "shutdown_failed"}
                               /\ events'[i][2] = a
                        THEN "shutdown" ELSE sub_state[a]]
    /\ pc' = IF pending_exc = "none" THEN "returned" ELSE "raised"
    /\ UNCHANGED <<max_iterations, iteration, compliance_result, final_result,
                   pending_exc, used_result, agentVars>>

CoordNext(all) ==
    \/ StartupAllAgents /\ UNCHANGED <<schedVars, resVars, extVars>>
    \/ DataLoading /\ UNCHANGED <<schedVars, resVars, busVars, pipeVars, utilVars>>
    \/ StoreLookup /\ UNCHANGED <<schedVars, resVars, extVars>>
    \/ DemandForecasting /\ UNCHANGED <<schedVars, resVars, extVars>>
    \/ StaffMatching /\ UNCHANGED <<schedVars, resVars, extVars>>
    \/ LoopValidate(all) /\ UNCHANGED <<schedVars, resVars, extVars>>
    \/ LoopExit /\ UNCHANGED <<schedVars, resVars, extVars>>
    \/ Resolve /\ UNCHANGED <<schedVars, resVars, extVars>>
    \/ FinalValidation(all) /\ UNCHANGED <<schedVars, resVars, extVars>>
    \/ Escalation /\ UNCHANGED <<schedVars, resVars, extVars>>
    \/ Explain /\ UNCHANGED <<schedVars, resVars, extVars>>
    \/ Export /\ UNCHANGED <<schedVars, resVars, extVars>>
    \/ FinalReport /\ UNCHANGED <<schedVars, resVars, extVars>>
    \/ ExceptBlock /\ UNCHANGED <<schedVars, resVars, extVars>>
    \/ FinallyBlock /\ UNCHANGED <<schedVars, resVars, extVars>>

----------------------------------------------------------------------------
(* The roster the Staff Matcher and the Conflict Resolver work on          *)
(* (models/employee.py, models/shift.py, models/store.py)                  *)

\* the dates the employees have availability entries for, as days from
\* schedule.start_date: the last three days of the first schedule week and
\* the first day of the second; the fourteen days of the schedule once a
\* roster of the smoke scenario is loaded
SampleDates == 4..7
SmokeDates == 0..13
RosterDates == IF smoke.pc = "off" THEN SampleDates ELSE SmokeDates

\* the employees list handed to both agents, in list order
SampleRoster == <<"ca", "ft">>
RosterEmployees ==
    IF smoke.pc = "off" THEN SampleRoster ELSE SmokeRoster(smoke.etype)
SampleStaff == {SampleRoster[i] : i \in 1..Len(SampleRoster)}
SmokeStaffOf == [t \in EmployeeTypes |-> {SmokeRoster(t)[i] : i \in 1..6}]
RosterSet == IF smoke.pc = "off" THEN SampleStaff ELSE SmokeStaffOf[smoke.etype]

\* Employee._get_hours_target, as <<min, max>> in half hours
get_hours_target(etype) ==
    CASE etype = "Full-Time" -> <<70, 76>>
      [] etype = "Part-Time" -> <<40, 64>>
      [] etype = "Casual"    -> <<16, 48>>
      [] OTHER               -> <<0, 80>>

\* Employee.weekly_hours_target, set by __post_init__
weekly_hours_target(e) == get_hours_target(EmployeeTypeOf(e))

\* Employee.primary_station
primary_station(e) ==
    IF e = "ft" THEN "Station.COUNTER" ELSE "Station.KITCHEN"

\* Employee.skills: __post_init__ adds the primary station to the trained ones
skills(e) ==
    {primary_station(e)}
    \cup (IF e = "ft" THEN {"Station.KITCHEN"}
         ELSE IF e \in SmokeStaff THEN Stations ELSE {})

\* Employee.availability[date]: the shift codes listed for the date, "/" the
\* day-off marker; <<"absent">> stands for a date that is not a key
availability(e, d) ==
    CASE e = "ca" -> IF d = 5 THEN <<"3F", "1F">>
                     ELSE IF d < 7 THEN <<"3F">> ELSE <<"1F">>
      [] e = "ft" -> IF d = 4 THEN <<"2F">>
                     ELSE IF d = 5 THEN <<"1F">>
                     ELSE IF d = 6 THEN <<"1F", "/">>
                     ELSE <<"absent">>
      [] e \in SmokeStaff -> IF d \in 0..13 THEN <<"1F", "2F">> ELSE <<"absent">>
      [] OTHER    -> <<"absent">>

\* Employee.is_available
employee_is_available(e, d, code) ==
    LET available_shifts == availability(e, d)
    IN  IF available_shifts = <<"absent">> THEN FALSE
        ELSE IF InList(available_shifts, "/") \/ available_shifts = <<>> THEN FALSE
        ELSE InList(available_shifts, code)

\* Employee.can_work_station
employee_can_work_station(e, station) == station \in skills(e)

\* Shift.from_code: start and end of the shift in half hours after midnight
ShiftStart(code) ==
    CASE code = "1F" -> 13
      [] code = "2F" -> 28
      [] code = "3F" -> 16
      [] code = "M"  -> 18
ShiftEnd(code) ==
    CASE code = "1F" -> 31
      [] code = "2F" -> 46
      [] code = "3F" -> 40
      [] code = "M"  -> 34

\* Shift.get_start_datetime / get_end_datetime, in half hours from the
\* midnight that starts day 0
get_start_datetime(a) == a.date * 48 + ShiftStart(a.shift_type)
get_end_datetime(a)   == a.date * 48 + ShiftEnd(a.shift_type)

\* Shift.hours_until_next, in half hours
hours_until_next(this, next_shift) ==
    get_start_datetime(next_shift) - get_end_datetime(this)

----------------------------------------------------------------------------
(* The validator's rest-period check (agents/compliance_validator.py) *)

\* params["min_rest_hours"]
min_rest_hours == 10

\* the sort key (a.shift.date, a.shift.start_time) compared as tuples
KeyAtMost(a, b) ==
    \/ a.date < b.date
    \/ a.date = b.date /\ ShiftStart(a.shift_type) <= ShiftStart(b.shift_type)

\* sorted(assignments, key=...): stable, so an entry goes behind the entries
\* of an equal key that precede it in the list
sorted_by_start(xs) ==
    LET before(j, i) == IF j < i THEN KeyAtMost(xs[j], xs[i])
                        ELSE ~KeyAtMost(xs[i], xs[j])
        place(i) == Cardinality({j \in 1..Len(xs) : j # i /\ before(j, i)}) + 1
    IN  [k \in 1..Len(xs) |-> xs[CHOOSE i \in 1..Len(xs) : place(i) = k]]

\* the test of one pair that also flags a rest of exactly min_rest_hours
check_pair_rest_inclusive(r, e, current, next_shift) ==
    LET rest_hours == hours_until_next(current, next_shift)
    IN  IF rest_hours <= 2 * min_rest_hours
        THEN add_violation(r, RestViolation(e, next_shift.date, rest_hours))
        ELSE r

\* the body of `for i in range(len(sorted_assignments) - 1)`
check_pair_rest(r, e, current, next_shift) ==
    LET rest_hours == hours_until_next(current, next_shift)
    IN  IF rest_hours < 2 * min_rest_hours
        THEN add_violation(r, RestViolation(e, next_shift.date, rest_hours))
        ELSE r

\* the loop over the pairs i .. last, taken by halves in the order of the loop
RECURSIVE CheckPairsIn(_, _, _, _, _)
CheckPairsIn(r, e, sorted, i, last) ==
    IF i > last THEN r
    ELSE IF i = last THEN check_pair_rest(r, e, sorted[i], sorted[i + 1])
    ELSE Bind(CheckPairsIn(r, e, sorted, i, (i + last) \div 2),
              LAMBDA checked :
                  CheckPairsIn(checked, e, sorted, (i + last) \div 2 + 1, last))
CheckPairs(r, e, sorted, i) == CheckPairsIn(r, e, sorted, i, Len(sorted) - 1)

RECURSIVE CheckRestOf(_, _, _, _)
CheckRestOf(r, sched, roster, emps) ==
    IF emps = <<>> THEN r
    ELSE Bind(IF Head(emps) \in roster
              THEN CheckPairs(r, Head(emps),
                              sorted_by_start(SelectSeq(sched,
                                  LAMBDA a : a.employee = Head(emps))), 1)
              ELSE r,
              LAMBDA checked : CheckRestOf(checked, sched, roster, Tail(emps)))

\* ComplianceValidatorAgent._check_rest_period_compliance on schedule sched,
\* with self.employees holding the ids in roster; the employees are visited
\* in the order of their first entry in the schedule
check_rest_period_compliance(r, sched, roster) ==
    CheckRestOf(r, sched, roster, HoursEmployeeOrder(sched))

----------------------------------------------------------------------------
(* The rest-period check run on a schedule *)

\* the employees handed to the validator: "zz" works in the schedule but is
\* not among them
RestRoster == {"ft", "ca"}

RestUniverse ==
    {Assignment("ft", d, t, "Station.KITCHEN", FALSE) :
        d \in {0, 1}, t \in {"1F", "2F", "M"}}
    \cup {Assignment("ca", 0, "2F", "Station.COUNTER", FALSE),
          Assignment("ca", 1, "M", "Station.COUNTER", FALSE),
          Assignment("zz", 0, "2F", "Station.COUNTER", FALSE),
          Assignment("zz", 1, "1F", "Station.COUNTER", FALSE)}

\* the validator runs _check_rest_period_compliance on a fresh result
RunRestCheck ==
    /\ res_call.op = "init"
    /\ result' = check_rest_period_compliance(NewComplianceResult(1), assignments,
                                              RestRoster)
    /\ res_call' = [op |-> "check_rest", arg |-> NoViolation, reason |-> ""]
    /\ UNCHANGED score_at_add

RestNext ==
    \/ \E a \in RestUniverse :
          /\ res_call.op = "init"
          /\ Len(assignments) < MaxWeekShifts
          /\ add_assignment(a)
          /\ UNCHANGED <<resVars, agentVars, coordVars, extVars>>
    \/ RunRestCheck /\ UNCHANGED <<schedVars, agentVars, coordVars, extVars>>

----------------------------------------------------------------------------
(* The validator's consecutive-days check *)

\* params["max_consecutive_days"]
max_consecutive_days == 6

\* employee_dates[emp_id]: the set of the dates the employee works on
employee_dates(sched, e) == {sched[i].date : i \in {j \in 1..Len(sched) : sched[j].employee = e}}

\* sorted(work_dates)
sorted_dates(S) ==
    [k \in 1..Cardinality(S) |->
        CHOOSE d \in S : Cardinality({x \in S : x < d}) = k - 1]

\* the loop over sorted_dates with the count never started again after a gap
RECURSIVE scan_runs_no_reset(_, _, _, _)
scan_runs_no_reset(dates, i, consecutive, max_found) ==
    IF i > Len(dates) THEN max_found
    ELSE IF dates[i] - dates[i - 1] = 1
         THEN scan_runs_no_reset(dates, i + 1, consecutive + 1,
                                 Max(max_found, consecutive + 1))
         ELSE scan_runs_no_reset(dates, i + 1, consecutive, max_found)

\* `for i in range(1, len(sorted_dates))`: i is the 1-based position of the
\* later date; the value is max_found after the loop
RECURSIVE scan_runs(_, _, _, _)
scan_runs(dates, i, consecutive, max_found) ==
    IF i > Len(dates) THEN max_found
    ELSE IF dates[i] - dates[i - 1] = 1
         THEN scan_runs(dates, i + 1, consecutive + 1,
                        Max(max_found, consecutive + 1))
         ELSE scan_runs(dates, i + 1, 1, max_found)

\* the body of the loop over employee_dates for one employee
check_consecutive_days(r, sched, e) ==
    LET max_found == scan_runs(sorted_dates(employee_dates(sched, e)), 2, 1, 1)
    IN  IF max_found > max_consecutive_days
        THEN add_violation(r, ConsecutiveViolation(e, max_found))
        ELSE r

RECURSIVE CheckConsecutiveOf(_, _, _, _)
CheckConsecutiveOf(r, sched, roster, emps) ==
    IF emps = <<>> THEN r
    ELSE Bind(IF Head(emps) \in roster
              THEN check_consecutive_days(r, sched, Head(emps))
              ELSE r,
              LAMBDA checked : CheckConsecutiveOf(checked, sched, roster, Tail(emps)))

\* ComplianceValidatorAgent._check_consecutive_days_compliance on schedule
\* sched, with self.employees holding the ids in roster
check_consecutive_days_compliance(r, sched, roster) ==
    CheckConsecutiveOf(r, sched, roster, HoursEmployeeOrder(sched))

----------------------------------------------------------------------------
(* The consecutive-days check run on a schedule *)

\* the shifts a schedule is filled from, date by date: ft on any of the
\* dates, with a second shift on the last one, and ca on the first two
ConsecutiveShifts ==
    [i \in 1..(LastWorkDate + 1) |->
        Assignment("ft", i - 1, "1F", "Station.KITCHEN", FALSE)]
    \o << Assignment("ft", LastWorkDate, "2F", "Station.KITCHEN", FALSE),
          Assignment("ca", 0, "1F", "Station.COUNTER", FALSE),
          Assignment("ca", 1, "1F", "Station.COUNTER", FALSE) >>

\* the position in ConsecutiveShifts of the last entry of the schedule
LastFilled ==
    IF assignments = <<>> THEN 0
    ELSE FirstIndex(ConsecutiveShifts, assignments[Len(assignments)])

\* the validator runs _check_consecutive_days_compliance on a fresh result
RunConsecutiveCheck ==
    /\ res_call.op = "init"
    /\ result' = check_consecutive_days_compliance(NewComplianceResult(1),
                                                   assignments, RestRoster)
    /\ res_call' = [op |-> "check_consecutive", arg |-> NoViolation, reason |-> ""]
    /\ UNCHANGED score_at_add

ConsecutiveNext ==
    \/ \E i \in 1..Len(ConsecutiveShifts) :
          /\ res_call.op = "init"
          /\ i > LastFilled
          /\ add_assignment(ConsecutiveShifts[i])
          /\ UNCHANGED <<resVars, agentVars, coordVars, extVars>>
    \/ RunConsecutiveCheck /\ UNCHANGED <<schedVars, agentVars, coordVars, extVars>>

----------------------------------------------------------------------------
(* The roster and the store of the staff matcher *)

\* Store.get_active_stations of a store without McCafe and dessert station
get_active_stations == <<"Station.KITCHEN", "Station.COUNTER">>

\* The schedule both agents work on is held as the set of the entries of
\* Schedule.assignments.  Every entry is unlocked, and double_booked records
\* an entry added for an employee who already had one on that date, so the
\* list never holds an entry twice unnoticed.  Where the code depends on the
\* order of the list, every order is allowed.

\* is_employee_assigned that counts locked assignments only
is_employee_assigned_locked(sched, e, d) ==
    \E a \in sched : a.employee = e /\ a.date = d /\ a.is_locked

\* Schedule.is_employee_assigned
is_employee_assigned(sched, e, d) ==
    \E a \in sched : a.employee = e /\ a.date = d

\* Schedule.get_assignments_by_employee: the employee's entries
assignments_of(sched, e) == {a \in sched : a.employee = e}

\* sum(a.shift.hours for a in ...), in half hours
RECURSIVE hours_sum(_)
hours_sum(S) ==
    IF S = {} THEN 0
    ELSE LET a == CHOOSE x \in S : TRUE
         IN  ShiftHalfHours(a.shift_type) + hours_sum(S \ {a})

----------------------------------------------------------------------------
(* Staff Matcher (agents/staff_matcher.py) *)

\* StaffMatcherAgent._get_week_number: days from schedule.start_date // 7
week_of(d) == d \div 7

SampleWeeks == {week_of(d) : d \in SampleDates}
SmokeWeeks == {week_of(d) : d \in SmokeDates}
RosterWeeks == IF smoke.pc = "off" THEN SampleWeeks ELSE SmokeWeeks

\* self._employee_hours after the reset in execute
SampleNoHours == [e \in SampleStaff |-> [w \in SampleWeeks |-> 0]]
SmokeNoHours ==
    [t \in EmployeeTypes |-> [e \in SmokeStaffOf[t] |-> [w \in SmokeWeeks |-> 0]]]
NoHours == IF smoke.pc = "off" THEN SampleNoHours ELSE SmokeNoHours[smoke.etype]

\* the order _match_day visits the shift codes in
shift_priority == <<"1F", "3F", "2F">>

\* the (date, shift code, station) triples execute reaches, in order
RECURSIVE SlotsFrom(_, _)
SlotsFrom(d, dates) ==
    IF d \notin dates THEN <<>>
    ELSE [i \in 1..(Len(shift_priority) * Len(get_active_stations)) |->
            [date |-> d,
             shift_code |-> shift_priority[((i - 1) \div Len(get_active_stations)) + 1],
             station |-> get_active_stations[((i - 1) % Len(get_active_stations)) + 1]]]
         \o SlotsFrom(d + 1, dates)
SampleSlots == SlotsFrom(4, SampleDates)
SmokeSlots == SlotsFrom(0, SmokeDates)
Slots == IF smoke.pc = "off" THEN SampleSlots ELSE SmokeSlots

\* MIN_REST_HOURS of _check_rest_period and _check_rest_period_for_new_shift
MIN_REST_HOURS == 10

\* one 10-hour rest test of _check_rest_period against an existing shift
RestConflict(existing, new) ==
    LET hours_after_existing  == get_start_datetime(new) - get_end_datetime(existing)
        hours_before_existing == get_start_datetime(existing) - get_end_datetime(new)
    IN  \/ 0 < hours_after_existing /\ hours_after_existing < 2 * MIN_REST_HOURS
        \/ 0 < hours_before_existing /\ hours_before_existing < 2 * MIN_REST_HOURS

\* StaffMatcherAgent._check_rest_period
check_rest_period(sched, e, new) ==
    \A a \in assignments_of(sched, e) : ~RestConflict(a, new)

\* StaffMatcherAgent._can_assign; hours is self._employee_hours
can_assign(sched, hours, e, d, code) ==
    /\ employee_is_available(e, d, code)
    /\ ~is_employee_assigned(sched, e, d)
    /\ code \in {"1F", "2F", "3F"}
    /\ ~(hours[e][week_of(d)] + ShiftHalfHours(code) > weekly_hours_target(e)[2])
    /\ check_rest_period(sched, e, Assignment(e, d, code, "none", FALSE))

\* _get_ranked_candidates: the employees that pass the three filters.  Their
\* order is by a score that adds random.uniform(0, 5); every order is allowed.
get_ranked_candidates(sched, d, code, station) ==
    {e \in RosterSet :
        /\ employee_is_available(e, d, code)
        /\ ~is_employee_assigned(sched, e, d)
        /\ employee_can_work_station(e, station)}

\* the lists that hold each member of S once
Orders(S) ==
    {f \in [1..Cardinality(S) -> S] : \A x \in S : \E i \in DOMAIN f : f[i] = x}

\* _record_assignment on self._employee_hours
record_assignment(hours, e, d, code) ==
    [hours EXCEPT ![e][week_of(d)] = @ + ShiftHalfHours(code)]

\* the loop of _fill_station_shift over the ranked candidates; m holds the
\* schedule, the hours bookkeeping and double_booked
RECURSIVE fill_station_shift(_, _, _, _, _)
fill_station_shift(m, candidates, filled, required_count, slot_) ==
    IF candidates = <<>> \/ filled >= required_count THEN m
    ELSE LET e == Head(candidates)
         IN  IF can_assign(m.schedule, m.hours, e, slot_.date, slot_.shift_code)
             THEN fill_station_shift(
                      [schedule |-> m.schedule \cup
                                      {Assignment(e, slot_.date, slot_.shift_code,
                                                  slot_.station, FALSE)},
                       hours |-> record_assignment(m.hours, e, slot_.date,
                                                   slot_.shift_code),
                       double |-> m.double
                                  \/ is_employee_assigned(m.schedule, e, slot_.date)],
                      Tail(candidates), filled + 1, required_count, slot_)
             ELSE fill_station_shift(m, Tail(candidates), filled,
                                     required_count, slot_)

\* StaffMatcherAgent as constructed: no schedule yet, nothing tracked
MatcherInit ==
    /\ schedule = {}
    /\ employee_hours = NoHours
    /\ double_booked = FALSE
    /\ slot = 0
    /\ matcher_call = [op |-> "init", ret |-> "None"]

\* StaffMatcherAgent.execute up to its loop over the dates: a fresh Schedule
\* and fresh tracking
matcher_execute ==
    /\ slot = 0
    /\ schedule' = {}
    /\ employee_hours' = NoHours
    /\ double_booked' = FALSE
    /\ slot' = 1
    /\ matcher_call' = [op |-> "execute", ret |-> "None"]

\* one iteration of the loops of _match_day: required_count is read from the
\* demand forecast, and _fill_station_shift runs when it is positive
match_slot ==
    /\ slot \in 1..Len(Slots)
    /\ \E required_count \in 0..MaxRequired :
          LET s  == Slots[slot]
              m0 == [schedule |-> schedule, hours |-> employee_hours,
                     double |-> double_booked]
          IN  \E order \in Orders(get_ranked_candidates(schedule, s.date,
                                                       s.shift_code, s.station)) :
                  LET m == IF required_count > 0
                           THEN fill_station_shift(m0, order, 0, required_count, s)
                           ELSE m0
                  IN  /\ schedule' = m.schedule
                      /\ employee_hours' = m.hours
                      /\ double_booked' = m.double
    /\ slot' = slot + 1
    /\ matcher_call' = [op |-> "fill", ret |-> "None"]

\* execute has returned self.schedule
ExecuteReturned == slot = Len(Slots) + 1

\* StaffMatcherAgent.add_assignment
matcher_add_assignment(e, d, code, station) ==
    /\ ExecuteReturned
    /\ IF can_assign(schedule, employee_hours, e, d, code)
       THEN /\ schedule' = schedule \cup {Assignment(e, d, code, station, FALSE)}
            /\ employee_hours' = record_assignment(employee_hours, e, d, code)
            /\ double_booked' = (double_booked \/ is_employee_assigned(schedule, e, d))
            /\ matcher_call' = [op |-> "add_assignment", ret |-> "assignment"]
       ELSE /\ matcher_call' = [op |-> "add_assignment", ret |-> "None"]
            /\ UNCHANGED <<schedule, employee_hours, double_booked>>
    /\ UNCHANGED slot

\* StaffMatcherAgent.update_assignment for an unlocked assignment: the old
\* entry is removed and its hours are taken off, the new one is added and
\* recorded
matcher_update_assignment(old, new_employee) ==
    /\ ExecuteReturned
    /\ LET new == Assignment(new_employee, old.date, old.shift_type, old.station, FALSE)
           reversed == [employee_hours EXCEPT
                           ![old.employee][week_of(old.date)] =
                               @ - ShiftHalfHours(old.shift_type)]
       IN  /\ schedule' = (schedule \ {old}) \cup {new}
           /\ employee_hours' = record_assignment(reversed, new_employee, new.date,
                                                  new.shift_type)
           /\ double_booked' =
                 (double_booked
                  \/ is_employee_assigned(schedule \ {old}, new_employee, new.date))
    /\ matcher_call' = [op |-> "update_assignment", ret |-> "assignment"]
    /\ UNCHANGED slot

----------------------------------------------------------------------------
(* Conflict Resolver (agents/conflict_resolver.py) *)

\* the first n entries of a list: xs[:n]
Take(xs, n) == SubSeq(xs, 1, Min(n, Len(xs)))

\* a Resolution with its single change; the fields a change type does not
\* use hold "none" / -1
Resolution(action, impact, type, a, e, d, code, station) ==
    [action |-> action, impact_score |-> impact, requires_approval |-> FALSE,
     type |-> type, assignment |-> a, employee |-> e, date |-> d,
     shift_code |-> code, station |-> station]

\* hours the schedule holds for an employee in a week, in half hours
current_hours(sched, e, w) ==
    hours_sum({a \in assignments_of(sched, e) : week_of(a.date) = w})

\* _check_rest_period_for_new_shift with the test against later shifts left out
check_rest_period_for_new_shift_backwards_only(sched, e, new) ==
    \A a \in assignments_of(sched, e) :
        LET gap == get_start_datetime(new) - get_end_datetime(a)
        IN  ~(0 < gap /\ gap < 2 * MIN_REST_HOURS)

\* ConflictResolverAgent._check_rest_period_for_new_shift
check_rest_period_for_new_shift(sched, e, new) ==
    \A a \in assignments_of(sched, e) : ~RestConflict(a, new)

\* the filters of _find_replacement_employees without the availability test
is_replacement_unavailable(sched, a, station, e) ==
    /\ e # a.employee
    /\ employee_can_work_station(e, station)
    /\ ~is_employee_assigned(sched, e, a.date)
    /\ ~(current_hours(sched, e, week_of(a.date)) + ShiftHalfHours(a.shift_type)
           > weekly_hours_target(e)[2])
    /\ check_rest_period_for_new_shift(sched, e, a)

\* the filters of _find_replacement_employees
is_replacement(sched, a, station, e) ==
    /\ e # a.employee
    /\ employee_can_work_station(e, station)
    /\ employee_is_available(e, a.date, a.shift_type)
    /\ ~is_employee_assigned(sched, e, a.date)
    /\ ~(current_hours(sched, e, week_of(a.date)) + ShiftHalfHours(a.shift_type)
           > weekly_hours_target(e)[2])
    /\ check_rest_period_for_new_shift(sched, e, a)

\* the sort key of _find_replacement_employees, (primary station match,
\* full-time), as a number that orders the pairs the same way
suitability(e, station) ==
    (IF primary_station(e) = station THEN 2 ELSE 0)
    + (IF EmployeeTypeOf(e) = "Full-Time" THEN 1 ELSE 0)

\* ConflictResolverAgent._find_replacement_employees: the employees that pass
\* the filters, in dict order, then sorted by descending key (a stable sort)
find_replacement_employees(sched, a, station) ==
    LET With(candidates, k) ==
            SelectSeq(candidates, LAMBDA e : suitability(e, station) = k)
    IN  Bind(SelectSeq(RosterEmployees,
                       LAMBDA e : is_replacement(sched, a, station, e)),
             LAMBDA candidates : With(candidates, 3) \o With(candidates, 2)
                                 \o With(candidates, 1) \o With(candidates, 0))

\* ConflictResolverAgent._calculate_swap_impact
calculate_swap_impact(sched, a, e) ==
    LET mismatch == IF primary_station(e) # a.station THEN 20 ELSE 0
        by_type  == CASE EmployeeTypeOf(e) = "Full-Time" -> 0
                      [] EmployeeTypeOf(e) = "Part-Time" -> 10
                      [] EmployeeTypeOf(e) = "Casual"    -> 20
                      [] OTHER                           -> 15
        bonus    == IF current_hours(sched, e, week_of(a.date))
                         < weekly_hours_target(e)[1]
                    THEN 10 ELSE 0
    IN  Max(0, mismatch + by_type - bonus)

\* the swap resolutions built for one assignment and its first n replacements
Swaps(sched, a, station, n, penalty) ==
    Bind(Take(find_replacement_employees(sched, a, station), n),
         LAMBDA replacements :
            [i \in 1..Len(replacements) |->
                Resolution("swap",
                           calculate_swap_impact(sched, a, replacements[i]) + penalty,
                           "swap", a, replacements[i], -1, "none", "none")])

\* the first entry of a non-empty list with the fewest hours:
\* min(assignments, key=lambda a: a.shift.hours)
shortest_shift(xs) ==
    LET least == CHOOSE h \in {ShiftHalfHours(xs[i].shift_type) : i \in 1..Len(xs)} :
                    \A i \in 1..Len(xs) : h <= ShiftHalfHours(xs[i].shift_type)
        first == CHOOSE i \in 1..Len(xs) :
                    /\ ShiftHalfHours(xs[i].shift_type) = least
                    /\ \A j \in 1..(i - 1) : ShiftHalfHours(xs[j].shift_type) # least
    IN  xs[first]

RECURSIVE SwapsForEach(_, _, _, _)
SwapsForEach(sched, xs, n, penalty) ==
    IF xs = <<>> THEN <<>>
    ELSE Swaps(sched, Head(xs), Head(xs).station, n, penalty)
         \o SwapsForEach(sched, Tail(xs), n, penalty)

\* In the generators below, mine is get_assignments_by_employee of the
\* violation's employee: the employee's entries in the order of the list.

\* ConflictResolverAgent._resolve_hours_violation
resolve_hours_violation(sched, mine, v) ==
    IF v.affected_entity \notin RosterSet THEN <<>>
    ELSE     SwapsForEach(sched, mine, 3, 0)
             \o (IF mine = <<>> THEN <<>>
                 ELSE LET shortest == shortest_shift(mine)
                      IN  << Resolution("remove",
                                 50 + (ShiftHalfHours(shortest.shift_type) * 5) \div 2,
                                 "remove", shortest, "none", -1, "none", "none") >>)

\* the employee's assignments on the violation's date, in list order
OnAffectedDate(mine, v) ==
    SelectSeq(mine, LAMBDA a : a.date = v.affected_date)

\* ConflictResolverAgent._resolve_rest_period_violation
resolve_rest_period_violation(sched, mine, v) ==
    IF v.affected_entity \notin RosterSet \/ OnAffectedDate(mine, v) = <<>>
    THEN <<>>
    ELSE LET a == Head(OnAffectedDate(mine, v))
         IN  Swaps(sched, a, a.station, 3, 10)

\* ConflictResolverAgent._resolve_availability_violation
resolve_availability_violation(sched, mine, v) ==
    IF v.affected_entity \notin RosterSet \/ v.affected_date = -1
       \/ OnAffectedDate(mine, v) = <<>>
    THEN <<>>
    ELSE LET a == Head(OnAffectedDate(mine, v))
         IN  Swaps(sched, a, a.station, 5, 0)

RECURSIVE SkillOptions(_, _)
SkillOptions(sched, xs) ==
    IF xs = <<>> THEN <<>>
    ELSE LET a == Head(xs)
         IN  Swaps(sched, a, a.station, 3, 0)
             \o << Resolution("modify", 20, "modify_station", a, "none", -1,
                              "none", primary_station(a.employee)) >>
             \o SkillOptions(sched, Tail(xs))

\* ConflictResolverAgent._resolve_skill_violation
resolve_skill_violation(sched, mine, v) ==
    IF v.affected_entity \notin RosterSet THEN <<>>
    ELSE SkillOptions(sched, OnAffectedDate(mine, v))

\* sorted(xs, key=lambda a: a.shift.date) for the dates from d on
RECURSIVE ByDateFrom(_, _)
ByDateFrom(xs, d) ==
    IF \A i \in 1..Len(xs) : xs[i].date < d THEN <<>>
    ELSE SelectSeq(xs, LAMBDA a : a.date = d) \o ByDateFrom(xs, d + 1)

\* ConflictResolverAgent._resolve_consecutive_days_violation
resolve_consecutive_days_violation(sched, mine, v) ==
    LET work_dates == DictGet(v.details, "work_dates", {})
        sorted_assignments ==
            ByDateFrom(SelectSeq(mine, LAMBDA a : a.date \in work_dates), 0)
    IN  IF v.affected_entity \notin RosterSet \/ work_dates = {}
           \/ Len(sorted_assignments) < 2
        THEN <<>>
        ELSE LET mid_assignment == sorted_assignments[(Len(sorted_assignments) \div 2) + 1]
             IN  Swaps(sched, mid_assignment, mid_assignment.station, 3, 5)

\* the Station whose value is the name, "None" when there is none
station_named(name) ==
    IF \E s \in Stations : StationValue(s) = name
    THEN CHOOSE s \in Stations : StationValue(s) = name
    ELSE "None"

\* the shift codes for which _resolve_understaffing would add the employee
AddableCodes(sched, e, d) ==
    SelectSeq(<<"1F", "2F", "3F">>, LAMBDA code :
        /\ employee_is_available(e, d, code)
        /\ ~is_employee_assigned(sched, e, d)
        /\ check_rest_period_for_new_shift(sched, e, Assignment(e, d, code, "none", FALSE)))

RECURSIVE AddOptions(_, _, _, _)
AddOptions(sched, emps, d, station) ==
    IF emps = <<>> THEN <<>>
    ELSE LET e     == Head(emps)
             codes == AddableCodes(sched, e, d)
             rest  == AddOptions(sched, Tail(emps), d, station)
         IN  IF (station # "None" /\ ~employee_can_work_station(e, station))
                \/ codes = <<>>
             THEN rest
             ELSE << Resolution("add", 30, "add", NoAssignment, e, d, Head(codes),
                                IF station # "None" THEN station
                                ELSE primary_station(e)) >> \o rest

\* ConflictResolverAgent._resolve_understaffing
resolve_understaffing(sched, v) ==
    IF v.affected_date = -1 THEN <<>>
    ELSE Take(AddOptions(sched, RosterEmployees, v.affected_date,
                         station_named(DictGet(v.details, "station", "None"))), 5)

\* ConflictResolverAgent._generate_resolutions
generate_resolutions(sched, mine, v) ==
    CASE v.constraint_type = "hours_max"   -> resolve_hours_violation(sched, mine, v)
      [] v.constraint_type = "rest_period" -> resolve_rest_period_violation(sched, mine, v)
      [] v.constraint_type = "availability" -> resolve_availability_violation(sched, mine, v)
      [] v.constraint_type = "skill"       -> resolve_skill_violation(sched, mine, v)
      [] v.constraint_type = "consecutive" -> resolve_consecutive_days_violation(sched, mine, v)
      [] v.constraint_type = "min_staff"   -> resolve_understaffing(sched, v)
      [] v.constraint_type = "coverage"    -> resolve_understaffing(sched, v)
      [] OTHER                             -> <<>>

\* min(resolutions, key=lambda r: r.impact_score): the first of the least
best_of(resolutions) ==
    LET first == CHOOSE i \in 1..Len(resolutions) :
                    /\ \A j \in 1..Len(resolutions) :
                           resolutions[i].impact_score <= resolutions[j].impact_score
                    /\ \A j \in 1..(i - 1) :
                           resolutions[j].impact_score > resolutions[i].impact_score
    IN  resolutions[first]

\* what _apply_resolution hands to Schedule.remove_assignment and to
\* Schedule.add_assignment; NoAssignment where it calls neither
Removal(r) ==
    IF r.type \in {"swap", "remove", "modify_station"} THEN r.assignment
    ELSE NoAssignment
Addition(r) ==
    CASE r.type = "swap" ->
            Assignment(r.employee, r.assignment.date, r.assignment.shift_type,
                       r.assignment.station, FALSE)
      [] r.type = "add" ->
            Assignment(r.employee, r.date, r.shift_code, r.station, FALSE)
      [] r.type = "modify_station" ->
            Assignment(r.assignment.employee, r.assignment.date,
                       r.assignment.shift_type, r.station, FALSE)
      [] OTHER -> NoAssignment

\* ConflictResolverAgent._apply_resolution on the schedule: the removal
\* (every assignment is unlocked), then the addition
apply_resolution(sched, r) ==
    (sched \ {Removal(r)})
    \cup (IF Addition(r) = NoAssignment THEN {} ELSE {Addition(r)})

\* the addition of _apply_resolution meets an entry of the same employee
\* and date
DoubleBooks(sched, r) ==
    /\ Addition(r) # NoAssignment
    /\ is_employee_assigned(sched \ {Removal(r)}, Addition(r).employee,
                            Addition(r).date)

\* the violations a validation of the roster's schedule hands to the
\* resolver: one of every type the resolver routes, in the validator's order,
\* and one it has no generator for
ResolverFindings ==
    << UnavailableViolation("ca", 5, "1F"),
       UntrainedViolation("ft", 5, "Station.KITCHEN"),
       ExceedsMaxHours("ca", 0, 54, 48),
       BelowMinHours("ft", 0, 18, 70),
       RestViolation("ft", 5, 15),
       [ConsecutiveViolation("ca", 7) EXCEPT
            !.details = DictSet(@, "work_dates", SampleDates)],
       UnstaffedStation(4, "Station.COUNTER"),
       PeakUnderstaffed(6, "lunch", 0, 2) >>

\* compliance_result.violations: at most MaxWorkingSet of the findings, in
\* the order the validator reports them
WorkingSets ==
    {vs \in UNION {[1..n -> 1..Len(ResolverFindings)] : n \in 0..MaxWorkingSet} :
        \A i \in 1..(Len(vs) - 1) : vs[i] < vs[i + 1]}
FindingsAt(idx) == [i \in 1..Len(idx) |-> ResolverFindings[idx[i]]]

\* violations.sort(key=lambda v: v.severity, reverse=True): a stable sort
RECURSIVE BySeverityFrom(_, _)
BySeverityFrom(vs, sev) ==
    IF sev = 0 THEN <<>>
    ELSE SelectSeq(vs, LAMBDA v : v.severity = sev) \o BySeverityFrom(vs, sev - 1)
sort_by_severity(vs) == BySeverityFrom(vs, 10)

\* ConflictResolverAgent.max_iterations
resolver_max_iterations == 10

\* the while test of execute without the iteration limit
while_continues_unbounded(vs, iter) == vs # <<>>

\* the while test of execute
while_continues(vs, iter) == vs # <<>> /\ iter < resolver_max_iterations

\* what a step of execute records about itself
NoStep == [violation |-> NoViolation, generated |-> FALSE, applied |-> FALSE]

ResolverInit ==
    /\ violations = <<>>
    /\ todo = <<>>
    /\ resolver_iteration = 0
    /\ applied_resolutions = 0
    /\ removed = 0
    /\ resolver_pc = "idle"
    /\ last_step = NoStep

\* the while test and, when it passes, the head of the loop body: the
\* iteration count, the sort and the copy the for loop runs over
begin_pass(vs, iter) ==
    IF while_continues(vs, iter)
    THEN \E sorted \in {sort_by_severity(vs)} :
            /\ resolver_iteration' = iter + 1
            /\ violations' = sorted
            /\ todo' = sorted
            /\ resolver_pc' = "pass"
    ELSE /\ resolver_iteration' = iter
         /\ violations' = vs
         /\ todo' = <<>>
         /\ resolver_pc' = "returned"

\* ConflictResolverAgent.execute up to the first violation of the first pass
resolver_execute(vs) ==
    /\ ExecuteReturned
    /\ resolver_pc \in {"idle", "returned"}
    /\ applied_resolutions' = 0
    /\ removed' = 0
    /\ last_step' = NoStep
    /\ begin_pass(vs, 0)
    /\ UNCHANGED <<schedule, double_booked>>

\* the for loop moves to the next violation of its copy; after the last one
\* the while test runs again.  vs is the working set the iteration leaves.
next_violation(vs) ==
    IF Tail(todo) # <<>>
    THEN /\ todo' = Tail(todo)
         /\ violations' = vs
         /\ UNCHANGED <<resolver_iteration, resolver_pc>>
    ELSE \E left \in {vs} : begin_pass(left, resolver_iteration)

\* the body of the for loop of execute for one violation
settle_violation(v, resolutions) ==
    IF resolutions # <<>> /\ ~best_of(resolutions).requires_approval
    THEN /\ \E best_resolution \in {best_of(resolutions)} :
               /\ schedule' = apply_resolution(schedule, best_resolution)
               /\ double_booked' = (double_booked
                                     \/ DoubleBooks(schedule, best_resolution))
         /\ applied_resolutions' = applied_resolutions + 1
         /\ removed' = removed + 1
         /\ last_step' = [violation |-> v, generated |-> TRUE, applied |-> TRUE]
         /\ next_violation(ListRemove(violations, v))
    ELSE /\ last_step' = [violation |-> v, generated |-> resolutions # <<>>,
                          applied |-> FALSE]
         /\ next_violation(violations)
         /\ UNCHANGED <<schedule, double_booked, applied_resolutions, removed>>

\* one iteration of the for loop of execute, for every order the list may
\* hold the employee's assignments in
resolve_next ==
    /\ resolver_pc = "pass"
    /\ todo # <<>>
    /\ \E mine \in Orders(assignments_of(schedule, Head(todo).affected_entity)) :
          \E resolutions \in {generate_resolutions(schedule, mine, Head(todo))} :
              settle_violation(Head(todo), resolutions)

PipelineInit == MatcherInit /\ ResolverInit

\* the working sets of staffing findings alone
StaffingSets ==
    {idx \in WorkingSets :
        \A i \in 1..Len(idx) :
            ResolverFindings[idx[i]].constraint_type \in {"min_staff", "coverage"}}

\* StaffMatcher.execute on a fresh schedule, then rounds of
\* ConflictResolver.execute on the schedule it returned
PipelineNext ==
    \/ matcher_execute
       /\ UNCHANGED <<schedVars, resVars, agentVars, coordVars, busVars,
                      sideVars, resolverVars>>
    \/ match_slot
       /\ UNCHANGED <<schedVars, resVars, agentVars, coordVars, busVars,
                      sideVars, resolverVars>>
    \/ \E idx \in WorkingSets :
          /\ resolver_execute(FindingsAt(idx))
          /\ UNCHANGED <<schedVars, resVars, agentVars, coordVars, busVars,
                         sideVars, employee_hours, slot, matcher_call>>
    \/ resolve_next
       /\ UNCHANGED <<schedVars, resVars, agentVars, coordVars, busVars,
                      sideVars, employee_hours, slot, matcher_call>>

\* the pipeline run on staffing findings, with add_assignment requests to the
\* Staff Matcher between the rounds
RosteringNext ==
    \/ matcher_execute
       /\ UNCHANGED <<schedVars, resVars, agentVars, coordVars, busVars,
                      sideVars, resolverVars>>
    \/ match_slot
       /\ UNCHANGED <<schedVars, resVars, agentVars, coordVars, busVars,
                      sideVars, resolverVars>>
    \/ \E idx \in StaffingSets :
          /\ resolver_execute(FindingsAt(idx))
          /\ UNCHANGED <<schedVars, resVars, agentVars, coordVars, busVars,
                         sideVars, employee_hours, slot, matcher_call>>
    \/ resolve_next
       /\ UNCHANGED <<schedVars, resVars, agentVars, coordVars, busVars,
                      sideVars, employee_hours, slot, matcher_call>>
    \/ \E e \in RosterSet, d \in RosterDates, code \in {"1F", "2F", "3F"} :
          /\ resolver_pc # "pass"
          /\ matcher_add_assignment(e, d, code, primary_station(e))
          /\ UNCHANGED <<schedVars, resVars, agentVars, coordVars, busVars,
                         sideVars, resolverVars>>

\* the pipeline with the requests the Staff Matcher serves before and after
\* the call of the resolver: add_assignment requests, and one
\* update_assignment request as the last of them
BookkeepingNext ==
    \/ matcher_execute
       /\ UNCHANGED <<schedVars, resVars, agentVars, coordVars, busVars,
                      sideVars, resolverVars>>
    \/ match_slot
       /\ UNCHANGED <<schedVars, resVars, agentVars, coordVars, busVars,
                      sideVars, resolverVars>>
    \/ \E idx \in WorkingSets :
          /\ resolver_pc = "idle"
          /\ resolver_execute(FindingsAt(idx))
          /\ UNCHANGED <<schedVars, resVars, agentVars, coordVars, busVars,
                         sideVars, employee_hours, slot, matcher_call>>
    \/ resolve_next
       /\ UNCHANGED <<schedVars, resVars, agentVars, coordVars, busVars,
                      sideVars, employee_hours, slot, matcher_call>>
    \/ \E e \in RosterSet, d \in RosterDates, code \in {"1F", "2F", "3F"} :
          /\ resolver_pc # "pass"
          /\ matcher_call.op # "update_assignment"
          /\ matcher_add_assignment(e, d, code, primary_station(e))
          /\ UNCHANGED <<schedVars, resVars, agentVars, coordVars, busVars,
                         sideVars, resolverVars>>
    \/ \E old \in schedule, e \in RosterSet :
          /\ resolver_pc # "pass"
          /\ matcher_call.op # "update_assignment"
          /\ matcher_update_assignment(old, e)
          /\ UNCHANGED <<schedVars, resVars, agentVars, coordVars, busVars,
                         sideVars, resolverVars>>

----------------------------------------------------------------------------
(* Specifications *)

\* Coordinator.execute has not been called
CoordIdle ==
    /\ pc = "idle"
    /\ max_iterations = 0
    /\ iteration = 0
    /\ compliance_result = NoResult
    /\ final_result = NoResult
    /\ pending_exc = "none"
    /\ sub_state = [a \in SubAgents |-> "idle"]
    /\ events = <<>>
    /\ used_result = [escalation |-> 0, explain |-> 0, export |-> 0, report |-> 0]

----------------------------------------------------------------------------
(* The bids of the staff matcher and two calls of execute *)

\* target_date.weekday() for a schedule that starts on a Monday
weekday(d) == d % 7

\* sum(all_hours) of _get_average_hours_this_week, in half hours
RECURSIVE sum_hours(_, _, _)
sum_hours(hours, emps, w) ==
    IF emps = <<>> THEN 0
    ELSE hours[Head(emps)][w] + sum_hours(hours, Tail(emps), w)

\* _generate_employee_bid: total_score in points.  current_hours < avg * 0.7
\* and current_hours < avg are compared after multiplying by the number of
\* employees; hours_shortfall * 2 is the shortfall in half hours.
generate_employee_bid(hours, e, d, code, station, random_factor) ==
    LET skill_bid == IF primary_station(e) = station THEN 100
                     ELSE IF station \in skills(e) THEN 60 ELSE 0
        type_bid  == CASE EmployeeTypeOf(e) = "Full-Time" -> 50
                       [] EmployeeTypeOf(e) = "Part-Time" -> 30
                       [] EmployeeTypeOf(e) = "Casual"    -> 15
                       [] OTHER                           -> 0
        current   == hours[e][week_of(d)]
        min_hours == weekly_hours_target(e)[1]
        max_hours == weekly_hours_target(e)[2]
        need_bid  == IF current < min_hours THEN Min(30, min_hours - current)
                     ELSE IF current < max_hours THEN 10 ELSE 0
        n         == Len(RosterEmployees)
        total     == sum_hours(hours, RosterEmployees, week_of(d))
        fairness_bid == IF 10 * n * current < 7 * total THEN 25
                        ELSE IF n * current < total THEN 10 ELSE 0
        is_weekend == weekday(d) >= 5
        preference_bid ==
            IF code = "1F" THEN 5
            ELSE IF code = "2F" /\ ~is_weekend THEN 3
            ELSE IF is_weekend THEN (IF current < min_hours THEN 10 ELSE -5)
            ELSE 0
    IN  skill_bid + type_bid + need_bid + fairness_bid + preference_bid
          + random_factor

\* the k-th value random.uniform(0, 5) returns in a call of execute
jitter_at(J, k) == J[((k - 1) % Len(J)) + 1]

\* candidates.sort(key=lambda x: x[0], reverse=True): stable, so of two equal
\* scores the one earlier in the list stays first; xs holds <<score, employee>>
RECURSIVE sort_by_score(_)
sort_by_score(xs) ==
    IF xs = <<>> THEN <<>>
    ELSE LET x    == xs[Len(xs)]
             done == sort_by_score(SubSeq(xs, 1, Len(xs) - 1))
             n    == Cardinality({i \in 1..Len(done) : done[i][1] >= x[1]})
         IN  SubSeq(done, 1, n) \o <<x>> \o SubSeq(done, n + 1, Len(done))

\* _get_ranked_candidates with the scores: the <<score, employee>> pairs in
\* ranking order; drawn is the number of random values used before
scored_candidates(sched, hours, d, code, station, J, drawn) ==
    LET passing == SelectSeq(RosterEmployees, LAMBDA e :
                       /\ employee_is_available(e, d, code)
                       /\ ~is_employee_assigned(sched, e, d)
                       /\ employee_can_work_station(e, station))
    IN  sort_by_score([i \in 1..Len(passing) |->
            <<generate_employee_bid(hours, passing[i], d, code, station,
                                    jitter_at(J, drawn + i)),
              passing[i]>>])

\* execute that keeps the hours tracked by the call before
reset_tracking_kept(hours) == hours

\* execute: self._employee_hours = defaultdict(...)
reset_tracking(hours) == NoHours

NoRun == [schedule |-> {}, rankings |-> <<>>]

TwinInit ==
    twin = [pc |-> "idle", jitter |-> <<0>>, demand |-> [c \in {"1F", "2F", "3F"} |-> 0],
            slot |-> 0, schedule |-> {}, hours |-> NoHours, drawn |-> 0,
            rankings |-> <<>>, first |-> NoRun]

\* the first call of execute: J is the sequence random.uniform returns in
\* each of the two calls, demand the required_count of the forecast for
\* each shift code (the same for every date and station)
first_execute(J, demand) ==
    /\ twin.pc = "idle"
    /\ twin' = [twin EXCEPT !.pc = "first", !.jitter = J, !.demand = demand,
                            !.slot = 1, !.schedule = {},
                            !.hours = reset_tracking(@), !.drawn = 0,
                            !.rankings = <<>>]

\* one iteration of the loops of _match_day in the running call
twin_match_slot ==
    /\ twin.pc \in {"first", "second"}
    /\ twin.slot \in 1..Len(Slots)
    /\ LET s == Slots[twin.slot]
           required_count == twin.demand[s.shift_code]
       IN  IF required_count > 0
           THEN \E scored \in {scored_candidates(twin.schedule, twin.hours, s.date,
                                                 s.shift_code, s.station,
                                                 twin.jitter, twin.drawn)} :
                  LET candidates == [i \in 1..Len(scored) |-> scored[i][2]]
                      m == fill_station_shift(
                               [schedule |-> twin.schedule, hours |-> twin.hours,
                                double |-> FALSE],
                               candidates, 0, required_count, s)
                  IN  twin' = [twin EXCEPT !.slot = @ + 1,
                                           !.schedule = m.schedule,
                                           !.hours = m.hours,
                                           !.drawn = @ + Len(scored),
                                           !.rankings = Append(@, <<s, candidates>>)]
           ELSE twin' = [twin EXCEPT !.slot = @ + 1]

\* the first call returns its schedule and execute is called again with the
\* same arguments and the same random values
second_execute ==
    /\ twin.pc = "first"
    /\ twin.slot > Len(Slots)
    /\ twin' = [twin EXCEPT !.pc = "second",
                            !.first = [schedule |-> twin.schedule,
                                       rankings |-> twin.rankings],
                            !.slot = 1, !.schedule = {},
                            !.hours = reset_tracking(@), !.drawn = 0,
                            !.rankings = <<>>]

\* the second call returns
second_returns ==
    /\ twin.pc = "second"
    /\ twin.slot > Len(Slots)
    /\ twin' = [twin EXCEPT !.pc = "done"]

TwinNext ==
    \/ \E J \in [1..JitterPeriod -> JitterValues],
          demand \in [{"1F", "2F", "3F"} -> 0..MaxRequired] :
          first_execute(J, demand) /\ UNCHANGED <<coreVars, limiterVars, retryVars, negoVars>>
    \/ twin_match_slot /\ UNCHANGED <<coreVars, limiterVars, retryVars, negoVars>>
    \/ second_execute /\ UNCHANGED <<coreVars, limiterVars, retryVars, negoVars>>
    \/ second_returns /\ UNCHANGED <<coreVars, limiterVars, retryVars, negoVars>>

----------------------------------------------------------------------------
(* RateLimiter (config.py) *)

\* no RateLimiter constructed yet
NoLimiter == [max_calls |-> -1, period_seconds |-> -1, calls |-> <<>>]

LimiterInit ==
    /\ limiter = NoLimiter
    /\ clock = 0
    /\ granted = <<>>
    /\ denied = <<>>
    /\ limiter_call = [op |-> "none", ret |-> "None", left |-> -1]

\* RateLimiter(max_calls, period_seconds)
RateLimiter(max_calls, period_seconds) ==
    [max_calls |-> max_calls, period_seconds |-> period_seconds, calls |-> <<>>]

\* [t for t in self.calls if now - t <= self.period_seconds]
calls_in_window_inclusive(l, now) ==
    SelectSeq(l.calls, LAMBDA t : now - t <= l.period_seconds)

\* [t for t in self.calls if now - t < self.period_seconds]
calls_in_window(l, now) ==
    SelectSeq(l.calls, LAMBDA t : now - t < l.period_seconds)

\* RateLimiter.__init__
construct(max_calls, period_seconds) ==
    /\ limiter = NoLimiter
    /\ limiter' = RateLimiter(max_calls, period_seconds)
    /\ limiter_call' = [op |-> "construct", ret |-> "None", left |-> -1]
    /\ UNCHANGED <<clock, granted, denied>>

\* RateLimiter.acquire
acquire ==
    /\ limiter # NoLimiter
    /\ LET now  == clock
           kept == calls_in_window(limiter, now)
       IN  IF Len(kept) >= limiter.max_calls
           THEN /\ limiter' = [limiter EXCEPT !.calls = kept]
                /\ limiter_call' = [op |-> "acquire", ret |-> "False", left |-> -1]
                /\ denied' = Append(denied, now)
                /\ UNCHANGED granted
           ELSE /\ limiter' = [limiter EXCEPT !.calls = Append(kept, now)]
                /\ limiter_call' = [op |-> "acquire", ret |-> "True", left |-> -1]
                /\ granted' = Append(granted, now)
                /\ UNCHANGED denied
    /\ UNCHANGED clock

\* RateLimiter.remaining
remaining ==
    /\ limiter # NoLimiter
    /\ LET kept == calls_in_window(limiter, clock)
       IN  /\ limiter' = [limiter EXCEPT !.calls = kept]
           /\ limiter_call' = [op |-> "remaining", ret |-> "int",
                                left |-> Max(0, limiter.max_calls - Len(kept))]
    /\ UNCHANGED <<clock, granted, denied>>

\* time.time() moves on by one tick
time_passes ==
    /\ clock < MaxClock
    /\ clock' = clock + 1
    /\ UNCHANGED <<limiter, granted, denied, limiter_call>>

\* acquire is tried while fewer than MaxDenied calls were turned down
LimiterNext ==
    \/ \E n \in 1..MaxLimit, p \in 1..MaxPeriod :
          construct(n, p) /\ UNCHANGED <<coreVars, retryVars, negoVars, twinVars>>
    \/ Len(denied) < MaxDenied /\ acquire /\ UNCHANGED <<coreVars, retryVars, negoVars, twinVars>>
    \/ remaining /\ UNCHANGED <<coreVars, retryVars, negoVars, twinVars>>
    \/ time_passes /\ UNCHANGED <<coreVars, retryVars, negoVars, twinVars>>

----------------------------------------------------------------------------
(* retry_with_backoff (config.py) *)

\* no wrapped function called yet
RetryInit ==
    retry = [pc |-> "idle", max_retries |-> 0, base_delay |-> 0, max_delay |-> 0,
             exponential_base |-> 0, attempt |-> 0, invoked |-> 0, slept |-> <<>>,
             last_exception |-> 0, returned |-> 0, raised |-> 0, matching |-> FALSE]

\* exponential_base ** attempt
RECURSIVE Power(_, _)
Power(x, n) == IF n = 0 THEN 1 ELSE x * Power(x, n - 1)

\* the delay without the cap of max_delay
backoff_delay_uncapped(r) ==
    r.base_delay * Power(r.exponential_base, r.attempt)

\* delay = min(base_delay * (exponential_base ** attempt), max_delay)
backoff_delay(r) ==
    Min(r.base_delay * Power(r.exponential_base, r.attempt), r.max_delay)

\* wrapper(*args, **kwargs) is entered: last_exception = None, attempt = 0
wrapper(max_retries, base_delay, max_delay, exponential_base) ==
    /\ retry.pc = "idle"
    /\ retry' = [retry EXCEPT !.pc = "loop", !.max_retries = max_retries,
                              !.base_delay = base_delay, !.max_delay = max_delay,
                              !.exponential_base = exponential_base]

\* one iteration of `for attempt in range(max_retries + 1)`: func is invoked
\* and returns ("ok"), raises one of `exceptions` ("matching") or raises
\* something else ("other").  Invocations and the exceptions they raise are
\* numbered in order.  After the last iteration the loop is left and
\* last_exception is raised.
attempt_once(outcome) ==
    /\ retry.pc = "loop"
    /\ LET n == retry.invoked + 1
       IN  retry' =
             CASE outcome = "ok" ->
                    [retry EXCEPT !.invoked = n, !.pc = "returned", !.returned = n]
               [] outcome = "other" ->
                    [retry EXCEPT !.invoked = n, !.pc = "raised", !.raised = n,
                                  !.matching = FALSE]
               [] outcome = "matching" /\ retry.attempt < retry.max_retries ->
                    [retry EXCEPT !.invoked = n, !.last_exception = n,
                                  !.slept = Append(@, backoff_delay(retry)),
                                  !.attempt = @ + 1]
               [] outcome = "matching" /\ ~(retry.attempt < retry.max_retries) ->
                    [retry EXCEPT !.invoked = n, !.last_exception = n,
                                  !.pc = "raised", !.raised = n,
                                  !.matching = TRUE]

RetryNext ==
    \/ \E R \in 0..MaxRetries, b \in BaseDelays, M \in MaxDelays, x \in ExponentialBases :
          wrapper(R, b, M, x) /\ UNCHANGED <<coreVars, limiterVars, negoVars, twinVars>>
    \/ \E outcome \in {"ok", "matching", "other"} :
          attempt_once(outcome) /\ UNCHANGED <<coreVars, limiterVars, negoVars, twinVars>>

----------------------------------------------------------------------------
(* ConflictResolverAgent.negotiate_resolution (agents/conflict_resolver.py) *)

\* ConflictResolverAgent.MAX_NEGOTIATION_ROUNDS
MAX_NEGOTIATION_ROUNDS == 3

NoProposal == Resolution("none", 0, "none", NoAssignment, "none", -1, "none", "none")

NegoInit ==
    nego = [pc |-> "idle", proposals |-> <<>>, current_proposal |-> NoProposal,
            round_num |-> 0, sent |-> <<>>, negotiation_history |-> <<>>,
            result |-> NoProposal]

\* what _generate_resolutions returns to negotiate_resolution: adds of
\* different employees at the impact score 30 of _resolve_understaffing,
\* and lists that start with or hold a swap of another score
AddProposal(e) ==
    Resolution("add", 30, "add", NoAssignment, e, 0, "1F", "Station.KITCHEN")
SwapProposal(impact) ==
    Resolution("swap", impact, "swap",
               Assignment("ft", 0, "1F", "Station.KITCHEN", FALSE),
               "ca", 0, "1F", "Station.KITCHEN")
Candidates ==
    {AddProposal("a"), AddProposal("b"), AddProposal("c"),
     SwapProposal(15), SwapProposal(45)}
ProposalLists ==
    {ps \in UNION {[1..n -> Candidates] : n \in 0..MaxProposals} :
        \A i, j \in 1..Len(ps) : i # j => ps[i] # ps[j]}

\* [p for p in proposals if p != current_proposal]
remaining_proposals(proposals, current_proposal) ==
    SelectSeq(proposals, LAMBDA p : p # current_proposal)

\* _evaluate_proposal_feasibility: a proposal is refused only for an "add"
\* whose employee is_available answers False for; available is that answer.
\* It returns no counter_proposal, so the elif branch of negotiate_resolution
\* is never taken.
evaluate_proposal_feasibility(proposal, available) ==
    IF proposal.type = "add" /\ ~available THEN "infeasible" ELSE "feasible"

\* NegotiationRound(round_number, proposer, proposal) with its response
NegotiationRound(round_number, proposal, response) ==
    [round_number |-> round_number, proposer |-> "ConflictResolver",
     proposal |-> proposal, response |-> response]

\* negotiate_resolution up to the for loop
negotiate_resolution(proposals) ==
    /\ nego.pc = "idle"
    /\ nego' = IF proposals = <<>>
               THEN [nego EXCEPT !.pc = "returned", !.result = NoProposal]
               ELSE [nego EXCEPT !.pc = "round", !.proposals = proposals,
                                 !.current_proposal = best_of(proposals),
                                 !.round_num = 1]

\* one iteration of `for round_num in range(1, MAX_NEGOTIATION_ROUNDS + 1)`:
\* the proposal is sent, recorded and evaluated; the loop ends by return, by
\* break, or after the last round, and then None is returned
negotiation_round(available) ==
    /\ nego.pc = "round"
    /\ LET current   == nego.current_proposal
           answer    == evaluate_proposal_feasibility(current, available)
           others    == remaining_proposals(nego.proposals, current)
           sent      == Append(nego.sent, current)
       IN  nego' =
             IF answer = "feasible"
             THEN [nego EXCEPT !.sent = sent,
                               !.negotiation_history =
                                   Append(@, NegotiationRound(nego.round_num, current, "accept")),
                               !.pc = "returned", !.result = current]
             ELSE LET recorded ==
                        [nego EXCEPT !.sent = sent,
                                     !.negotiation_history =
                                         Append(@, NegotiationRound(nego.round_num, current, "reject"))]
                  IN  IF others = <<>> \/ nego.round_num = MAX_NEGOTIATION_ROUNDS
                      THEN [recorded EXCEPT !.pc = "returned", !.result = NoProposal,
                                            !.current_proposal =
                                                IF others = <<>> THEN current
                                                ELSE best_of(others)]
                      ELSE [recorded EXCEPT !.current_proposal = best_of(others),
                                            !.round_num = @ + 1]

NegotiationNext ==
    \/ \E proposals \in ProposalLists :
          negotiate_resolution(proposals) /\ UNCHANGED <<coreVars, limiterVars, retryVars, twinVars>>
    \/ \E available \in BOOLEAN :
          negotiation_round(available) /\ UNCHANGED <<coreVars, limiterVars, retryVars, twinVars>>

----------------------------------------------------------------------------
(* Coordinator.execute on the smoke scenario: a store with two stations,   *)
(* each requiring 2 staff in normal and 3 in peak periods, six employees   *)
(* available for 1F and 2F on every day and trained for both stations,     *)
(* fourteen days (agents/coordinator.py, agents/demand_forecaster.py,      *)
(* agents/compliance_validator.py)                                         *)

\* Store.get_staff_required_by_station for the store of the scenario
get_staff_required_by_station(station, is_peak) == IF is_peak THEN 3 ELSE 2

\* DemandForecasterAgent._forecast_day and _calculate_shift_requirements:
\* shift_requirements[code][station.value] for date d.  The lunch and the
\* dinner period are peak periods; int(base * 1.2) is (12 * base) \div 10
\* for the counts of the store.
shift_requirements(d, code, station) ==
    LET is_weekend == weekday(d) >= 5
        adjusted   == IF is_weekend
                      THEN (12 * get_staff_required_by_station(station, TRUE)) \div 10
                      ELSE get_staff_required_by_station(station, TRUE)
        lunch_peak  == adjusted
        dinner_peak == adjusted
    IN  CASE code = "1F" -> Max(1, (lunch_peak + 1) \div 2)
          [] code = "2F" -> Max(1, (dinner_peak + 1) \div 2)
          [] code = "3F" -> IF is_weekend /\ lunch_peak >= 3 THEN 1 ELSE 0

\* Schedule.assignments after the entries of added are appended in order
\* and the entries that left the schedule are dropped
assignments_after(xs, sched, added) ==
    SelectSeq(xs, LAMBDA a : a \in sched) \o added

\* ComplianceValidatorAgent._check_availability_compliance
check_availability_compliance(r, sched, roster) ==
    LET unavailable ==
            SelectSeq(sched, LAMBDA a :
                /\ a.employee \in roster
                /\ ~employee_is_available(a.employee, a.date, a.shift_type))
    IN  AddAll(r, [i \in 1..Len(unavailable) |->
                     UnavailableViolation(unavailable[i].employee,
                                          unavailable[i].date,
                                          unavailable[i].shift_type)])

\* ComplianceValidatorAgent._check_skill_compliance
check_skill_compliance(r, sched, roster) ==
    LET untrained ==
            SelectSeq(sched, LAMBDA a :
                /\ a.employee \in roster
                /\ ~employee_can_work_station(a.employee, a.station))
    IN  AddAll(r, [i \in 1..Len(untrained) |->
                     UntrainedViolation(untrained[i].employee, untrained[i].date,
                                        untrained[i].station)])

\* the lists of xss joined in order
RECURSIVE ConcatAll(_)
ConcatAll(xss) ==
    IF xss = <<>> THEN <<>>
    ELSE IF Len(xss) = 1 THEN xss[1]
    ELSE ConcatAll(SubSeq(xss, 1, Len(xss) \div 2))
         \o ConcatAll(SubSeq(xss, Len(xss) \div 2 + 1, Len(xss)))

\* what _check_minimum_staffing reports for date d: the overall minimum of
\* 2, then the active stations without anybody, in the order of the stations
minimum_staffing_findings(sched, d) ==
    LET daily_assignments == SelectSeq(sched, LAMBDA a : a.date = d)
        station_count(station) ==
            Len(SelectSeq(daily_assignments, LAMBDA a : a.station = station))
        unstaffed == SelectSeq(get_active_stations,
                               LAMBDA station : station_count(station) < 1)
    IN  (IF Len(daily_assignments) < 2
         THEN << UnderstaffedDay(d, Len(daily_assignments)) >>
         ELSE <<>>)
        \o [i \in 1..Len(unstaffed) |-> UnstaffedStation(d, unstaffed[i])]

\* ComplianceValidatorAgent._check_minimum_staffing over the dates of the
\* schedule, from the first to the last
check_minimum_staffing(r, sched, dates) ==
    AddAll(r, ConcatAll([i \in 1..Len(dates) |->
                            minimum_staffing_findings(sched, dates[i])]))

\* ComplianceValidatorAgent.execute: the hard-constraint checks in the order
\* execute runs them.  _check_peak_coverage and _check_fairness, which run
\* after them, add warnings only; Coordinator.execute reads the violations.
validate_schedule(sched, roster) ==
    Bind(check_availability_compliance(NewComplianceResult(0), sched, roster),
      LAMBDA r1 : Bind(check_skill_compliance(r1, sched, roster),
      LAMBDA r2 : Bind(check_hours_compliance(r2, sched, roster),
      LAMBDA r3 : Bind(check_rest_period_compliance(r3, sched, roster),
      LAMBDA r4 : Bind(check_consecutive_days_compliance(r4, sched, roster),
      LAMBDA r5 : check_minimum_staffing(r5, sched, sorted_dates(RosterDates)))))))

\* phase 1 and 2 of execute: the data loader returns the roster of one
\* employee type, and the forecast is made; J is the sequence
\* random.uniform returns to the staff matcher
smoke_load(etype, J, budget) ==
    /\ smoke.pc = "off"
    /\ smoke' = [smoke EXCEPT !.pc = "loaded", !.etype = etype, !.jitter = J,
                              !.budget = budget]

\* phase 3: StaffMatcherAgent.execute is called
smoke_match_begin ==
    /\ smoke.pc = "loaded"
    /\ matcher_execute
    /\ smoke' = [smoke EXCEPT !.pc = "match", !.drawn = 0, !.assignments = <<>>]

\* one iteration of the loops of _match_day
smoke_match_slot ==
    /\ smoke.pc = "match"
    /\ slot \in 1..Len(Slots)
    /\ LET s == Slots[slot]
           required_count == shift_requirements(s.date, s.shift_code, s.station)
       IN  IF required_count > 0
           THEN \E scored \in {scored_candidates(schedule, employee_hours, s.date,
                                                 s.shift_code, s.station,
                                                 smoke.jitter, smoke.drawn)} :
                  LET candidates == [i \in 1..Len(scored) |-> scored[i][2]]
                  IN  \E m \in {fill_station_shift(
                                   [schedule |-> schedule, hours |-> employee_hours,
                                    double |-> double_booked],
                                   candidates, 0, required_count, s)} :
                        LET taken == SelectSeq(candidates, LAMBDA e :
                                        Assignment(e, s.date, s.shift_code, s.station,
                                                   FALSE) \in m.schedule \ schedule)
                        IN  /\ schedule' = m.schedule
                            /\ employee_hours' = m.hours
                            /\ double_booked' = m.double
                            /\ smoke' = [smoke EXCEPT
                                  !.drawn = @ + Len(scored),
                                  !.assignments = assignments_after(@, m.schedule,
                                      [i \in 1..Len(taken) |->
                                          Assignment(taken[i], s.date, s.shift_code,
                                                     s.station, FALSE)])]
           ELSE UNCHANGED <<schedule, employee_hours, double_booked, smoke>>
    /\ slot' = slot + 1
    /\ matcher_call' = [op |-> "fill", ret |-> "None"]

\* StaffMatcherAgent.execute returns the schedule to phase 4
smoke_matched ==
    /\ smoke.pc = "match"
    /\ ExecuteReturned
    /\ smoke' = [smoke EXCEPT !.pc = "loop", !.iteration = 0]

\* phase 4, the head of the while loop: the validation and, unless the
\* schedule is compliant, the call of ConflictResolverAgent.execute
smoke_iterate ==
    /\ smoke.pc = "loop"
    /\ IF smoke.iteration < smoke.budget
       THEN \E r \in {validate_schedule(smoke.assignments, RosterSet)} :
              IF r.is_compliant
              THEN /\ smoke' = [smoke EXCEPT !.pc = "final", !.iteration = @ + 1,
                                             !.violations = r.violations]
                   /\ UNCHANGED <<schedule, double_booked, resolverVars>>
              ELSE /\ resolver_execute(r.violations)
                   /\ smoke' = [smoke EXCEPT !.pc = "resolve", !.iteration = @ + 1,
                                             !.violations = r.violations]
       ELSE /\ smoke' = [smoke EXCEPT !.pc = "final"]
            /\ UNCHANGED <<schedule, double_booked, resolverVars>>

\* one iteration of the for loop of ConflictResolverAgent.execute;
\* get_assignments_by_employee returns the employee's entries in list order
smoke_resolve_next ==
    /\ smoke.pc = "resolve"
    /\ resolver_pc = "pass"
    /\ todo # <<>>
    /\ LET v    == Head(todo)
           mine == SelectSeq(smoke.assignments,
                             LAMBDA a : a.employee = v.affected_entity)
       IN  \E resolutions \in {generate_resolutions(schedule, mine, v)} :
              settle_violation(v, resolutions)
    /\ smoke' = [smoke EXCEPT !.assignments =
                    assignments_after(@, schedule',
                        IF schedule' \subseteq schedule THEN <<>>
                        ELSE << CHOOSE a \in schedule' \ schedule : TRUE >>)]

\* ConflictResolverAgent.execute returns; the loop ends when it applied
\* nothing
smoke_resolved ==
    /\ smoke.pc = "resolve"
    /\ resolver_pc = "returned"
    /\ smoke' = [smoke EXCEPT !.pc = IF applied_resolutions = 0 THEN "final"
                                     ELSE "loop"]

\* phase 5 and 5.5: the final validation and the escalation of what it
\* found; an exception leaves execute through its except block
smoke_final ==
    /\ smoke.pc = "final"
    /\ \E r \in {validate_schedule(smoke.assignments, RosterSet)} :
         \E done \in {handle_manager_escalations(r, RosterEmployees)} :
            smoke' = [smoke EXCEPT
                         !.pc = IF done.exc = "none" THEN "escalated" ELSE "raised",
                         !.violations = r.violations,
                         !.exc = done.exc]

JitterSequences == [1..JitterPeriod -> JitterValues]

SmokeNext ==
    \/ \E etype \in EmployeeTypes, J \in JitterSequences :
          /\ smoke_load(etype, J, 5)
          /\ UNCHANGED <<schedVars, resVars, agentVars, coordVars, busVars,
                         loaderVars, pipeVars, limiterVars, retryVars, negoVars,
                         twinVars, lateVars>>
    \/ smoke_match_begin
       /\ UNCHANGED <<schedVars, resVars, agentVars, coordVars, busVars,
                      loaderVars, resolverVars, limiterVars, retryVars, negoVars,
                      twinVars, lateVars>>
    \/ smoke_match_slot
       /\ UNCHANGED <<schedVars, resVars, agentVars, coordVars, busVars,
                      loaderVars, resolverVars, limiterVars, retryVars, negoVars,
                      twinVars, lateVars>>
    \/ smoke_matched
       /\ UNCHANGED <<schedVars, resVars, agentVars, coordVars, busVars,
                      loaderVars, pipeVars, limiterVars, retryVars, negoVars,
                      twinVars, lateVars>>
    \/ smoke_iterate
       /\ UNCHANGED <<schedVars, resVars, agentVars, coordVars, busVars,
                      loaderVars, employee_hours, slot, matcher_call,
                      limiterVars, retryVars, negoVars, twinVars,
                      lateVars>>
    \/ smoke_resolve_next
       /\ UNCHANGED <<schedVars, resVars, agentVars, coordVars, busVars,
                      loaderVars, employee_hours, slot, matcher_call,
                      limiterVars, retryVars, negoVars, twinVars,
                      lateVars>>
    \/ smoke_resolved
       /\ UNCHANGED <<schedVars, resVars, agentVars, coordVars, busVars,
                      loaderVars, pipeVars, limiterVars, retryVars, negoVars,
                      twinVars, lateVars>>
    \/ smoke_final
       /\ UNCHANGED <<schedVars, resVars, agentVars, coordVars, busVars,
                      loaderVars, pipeVars, limiterVars, retryVars, negoVars,
                      twinVars, lateVars>>

\* Coordinator.execute has not loaded a roster of the smoke scenario
SmokeInit ==
    smoke = [pc |-> "off", etype |-> "none", jitter |-> <<0>>, drawn |-> 0,
             budget |-> 0, assignments |-> <<>>, iteration |-> 0,
             violations |-> <<>>, exc |-> "none"]

----------------------------------------------------------------------------
(* The auto-apply branch of ConflictResolverAgent.execute on a Schedule    *)
(* that holds locked assignments                                           *)

\* self.violations when the for loop of execute starts: one violation per
\* generator that auto-applies a kind of change
ApplyFindings ==
    << UnavailableViolation("e2", 0, "1F"),
       ExceedsMaxHours("e1", 0, 54, 48),
       UntrainedViolation("e2", 1, "Station.COUNTER"),
       UnstaffedStation(1, "Station.KITCHEN") >>

\* no resolution applied yet
NoResolution == Resolution("none", 0, "none", NoAssignment, "none", -1, "none", "none")

ApplyInit ==
    apply_call = [violations |-> ApplyFindings, violation |-> NoViolation,
                  resolution |-> NoResolution, before |-> <<>>, success |-> FALSE]

\* the employees the generators may name in a swap or an add: not the
\* holder of the assignment, and free on that date
free_on(e, d) == \A i \in 1..Len(by_employee[e]) : by_employee[e][i].date # d

\* the resolutions the generators build for a violation: the target is one
\* of the employee's assignments held by the schedule
ResolutionsFor(v) ==
    LET mine == get_assignments_by_employee(v.affected_entity)
        targets == {mine[i] : i \in 1..Len(mine)}
        on_date == {a \in targets : a.date = v.affected_date}
        swaps(as) ==
            UNION {{Resolution("swap", 10, "swap", a, e, -1, "none", "none") :
                       e \in {x \in SchedEmployees : free_on(x, a.date)}} : a \in as}
    IN  CASE v.constraint_type = "hours_max" ->
                {r \in swaps(targets) : r.employee # r.assignment.employee}
                \cup (IF mine = <<>> THEN {}
                      ELSE {Resolution("remove", 95, "remove", shortest_shift(mine),
                                       "none", -1, "none", "none")})
          [] v.constraint_type = "availability" ->
                {r \in swaps(on_date) : r.employee # r.assignment.employee}
          [] v.constraint_type = "skill" ->
                {r \in swaps(on_date) : r.employee # r.assignment.employee}
                \cup {Resolution("modify", 20, "modify_station", a, "none", -1,
                                 "none", s) : a \in on_date, s \in Stations}
          [] v.constraint_type = "min_staff" ->
                {Resolution("add", 30, "add", NoAssignment, e, v.affected_date,
                            "1F", station_named(v.details.station)) :
                    e \in {x \in SchedEmployees : free_on(x, v.affected_date)}}
          [] OTHER -> {}

\* ConflictResolverAgent._apply_resolution on the Schedule, and what execute
\* does with its return value.  The value Schedule.remove_assignment returns
\* is not read; a ValueError of list.remove is caught and makes the result
\* False.
auto_apply(v, r) ==
    LET old     == Removal(r)
        new     == Addition(r)
        removes == old # NoAssignment /\ ~old.is_locked /\ InList(assignments, old)
        okDate  == removes /\ InList(by_date[old.date], old)
        okEmp   == okDate /\ InList(by_employee[old.employee], old)
        okSta   == okEmp /\ InList(by_station[old.station], old)
        raised  == removes /\ ~okSta
        adds    == new # NoAssignment /\ ~raised
        put(xs, is, a) == IF is THEN Append(xs, a) ELSE xs
        cut(xs, is, a) == IF is THEN ListRemove(xs, a) ELSE xs
    IN  /\ assignments' = put(cut(assignments, removes, old), adds, new)
        /\ by_date' = [d \in DOMAIN by_date |->
                          put(cut(by_date[d], okDate /\ d = old.date, old),
                              adds /\ d = new.date, new)]
        /\ by_employee' = [e \in DOMAIN by_employee |->
                              put(cut(by_employee[e], okEmp /\ e = old.employee, old),
                                  adds /\ e = new.employee, new)]
        /\ by_station' = [s \in DOMAIN by_station |->
                             put(cut(by_station[s], okSta /\ s = old.station, old),
                                 adds /\ s = new.station, new)]
        /\ last_call' = IF adds THEN [op |-> "add", arg |-> new, ret |-> "None"]
                        ELSE [op |-> "remove", arg |-> old,
                              ret |-> IF raised THEN "ValueError"
                                      ELSE IF removes THEN "True" ELSE "False"]
        /\ apply_call' = [violations |-> IF raised THEN apply_call.violations
                                         ELSE ListRemove(apply_call.violations, v),
                          violation |-> v, resolution |-> r,
                          before |-> assignments, success |-> ~raised]

\* a schedule is put together, then violations of it are settled
ApplyNext ==
    \/ \E a \in SchedUniverse :
          /\ Len(assignments) < MaxSchedLen
          /\ apply_call.resolution = NoResolution
          /\ add_assignment(a)
          /\ UNCHANGED <<resVars, agentVars, coordVars, extVars>>
    \/ \E i \in 1..Len(ApplyFindings) :
          /\ InList(apply_call.violations, ApplyFindings[i])
          /\ \E r \in ResolutionsFor(ApplyFindings[i]) :
                auto_apply(ApplyFindings[i], r)
          /\ UNCHANGED <<resVars, agentVars, coordVars, busVars, loaderVars,
                         pipeVars, limiterVars, retryVars, negoVars, twinVars,
                         smokeVars, besideApply>>

----------------------------------------------------------------------------
(* ComplianceValidatorAgent.execute called more than once on one Schedule *)

\* longest assignment list handed to the validator, and the number of
\* calls of execute on it
MaxValidated == 2
MaxValidations == 2

\* PEAK_PERIODS["lunch"] and ["dinner"]: start and end in half hours
PeakSlot(period) ==
    CASE period = "lunch"  -> <<22, 28>>
      [] period = "dinner" -> <<34, 42>>

\* Shift.overlaps_time_slot
overlaps_time_slot(code, ts) == ShiftStart(code) < ts[2] /\ ts[1] < ShiftEnd(code)

\* Schedule.get_coverage without a station
get_coverage(sched, d, ts) ==
    Len(SelectSeq(sched, LAMBDA a : a.date = d /\ overlaps_time_slot(a.shift_type, ts)))

\* what _check_peak_coverage reports for a date: lunch, then dinner
peak_findings(sched, d, forecast) ==
    LET short(period) ==
            IF get_coverage(sched, d, PeakSlot(period)) < forecast[period]
            THEN << PeakUnderstaffed(d, period, get_coverage(sched, d, PeakSlot(period)),
                                     forecast[period]) >>
            ELSE <<>>
    IN  short("lunch") \o short("dinner")

\* _check_opening_closing_coverage: no closing staff on the date
ClosingUncovered(d) ==
    Violation("coverage", 6, "schedule", d,
              [period |-> "closing", coverage_type |-> "closing"],
              << <<"advice", "assign crew member to closing shift">> >>)

\* what _check_opening_closing_coverage reports for a date
opening_closing_findings(sched, d) ==
    LET codes == {sched[i].shift_type : i \in {j \in 1..Len(sched) : sched[j].date = d}}
    IN  (IF codes \cap {"S", "1F"} = {} THEN << OpeningUncovered(d) >> ELSE <<>>)
        \o (IF "2F" \notin codes THEN << ClosingUncovered(d) >> ELSE <<>>)

\* ComplianceValidatorAgent._check_peak_coverage, which ends with
\* _check_opening_closing_coverage
check_peak_coverage(r, sched, dates, forecast) ==
    Bind(AddAll(r, ConcatAll([i \in 1..Len(dates) |->
                                 peak_findings(sched, dates[i], forecast)])),
         LAMBDA peaks :
            AddAll(peaks, ConcatAll([i \in 1..Len(dates) |->
                                        opening_closing_findings(sched, dates[i])])))

\* sorted(values) of a list of numbers
sorted_values(vs) ==
    LET place(i) == Cardinality({j \in 1..Len(vs) :
                        vs[j] < vs[i] \/ (vs[j] = vs[i] /\ j < i)}) + 1
    IN  [k \in 1..Len(vs) |-> vs[CHOOSE i \in 1..Len(vs) : place(i) = k]]

RECURSIVE SumOf(_)
SumOf(vs) == IF vs = <<>> THEN 0 ELSE Head(vs) + SumOf(Tail(vs))

\* ComplianceValidatorAgent._calculate_gini, in hundredths (rounded down)
calculate_gini(values) ==
    LET sorted == sorted_values(values)
        n      == Len(sorted)
        cumsum == SumOf([i \in 1..n |-> i * sorted[i]])
        total  == SumOf(sorted)
    IN  IF n = 0 \/ total = 0 THEN 0
        ELSE Max(0, Min(100, (100 * (2 * cumsum - (n + 1) * total)) \div (n * total)))

\* ComplianceValidatorAgent._check_fairness: the hours of each employee of
\* the schedule, and a warning when the Gini coefficient is above 0.35
check_fairness(r, sched) ==
    LET emps == HoursEmployeeOrder(sched)
        hours_list == [i \in 1..Len(emps) |->
                          SumHalfHours(SelectSeq(sched, LAMBDA a : a.employee = emps[i]))]
    IN  IF Len(emps) < 2 \/ calculate_gini(hours_list) <= 35 THEN r
        ELSE add_violation(r, FairnessWarning(calculate_gini(hours_list)))

\* a validator that goes on with the result of its previous call
kept_result(prev, now) ==
    IF prev.checked_at = 0 THEN NewComplianceResult(now)
    ELSE [prev EXCEPT !.checked_at = now]

\* result = ComplianceResult(is_compliant=True): nothing of the previous
\* call's result is read
fresh_result(prev, now) == NewComplianceResult(now)

\* ComplianceValidatorAgent.execute: the eight checks in order
compliance_execute(prev, sched, roster, forecast, now) ==
    Bind(check_availability_compliance(fresh_result(prev, now), sched, roster),
      LAMBDA r1 : Bind(check_skill_compliance(r1, sched, roster),
      LAMBDA r2 : Bind(check_hours_compliance(r2, sched, roster),
      LAMBDA r3 : Bind(check_rest_period_compliance(r3, sched, roster),
      LAMBDA r4 : Bind(check_consecutive_days_compliance(r4, sched, roster),
      LAMBDA r5 : Bind(check_minimum_staffing(r5, sched, sorted_dates(SampleDates)),
      LAMBDA r6 : Bind(check_peak_coverage(r6, sched, sorted_dates(SampleDates), forecast),
      LAMBDA r7 : check_fairness(r7, sched))))))))

\* the assignments the schedule under validation is put together from
ValidatedUniverse ==
    {Assignment(e, d, code, primary_station(e), FALSE) :
        e \in SampleStaff, d \in {4, 5}, code \in {"1F", "3F"}}

\* total_staff of the lunch and of the dinner requirement of the forecast
Forecasts == [{"lunch", "dinner"} -> {0, 2}]

ValidationInit ==
    validation = [pc |-> "idle", forecast |-> [lunch |-> 0, dinner |-> 0],
                  assignments |-> <<>>, calls |-> 0,
                  result |-> NoResult, previous |-> NoResult,
                  found |-> <<>>, changed |-> FALSE, repeated |-> FALSE]

\* the Coordinator holds a forecast
validation_forecast(forecast) ==
    /\ validation.pc = "idle"
    /\ validation' = [validation EXCEPT !.pc = "ready", !.forecast = forecast]

\* Schedule.add_assignment between two validations
validation_add(a) ==
    /\ validation.pc = "ready"
    /\ Len(validation.assignments) < MaxValidated
    /\ validation' = [validation EXCEPT !.assignments = Append(@, a),
                                        !.changed = TRUE]

\* ComplianceValidatorAgent.execute(schedule, employees, store, forecast):
\* the call number stands for datetime.now()
validate ==
    /\ validation.pc = "ready"
    /\ validation.calls < MaxValidations
    /\ validation' = [validation EXCEPT
            !.calls = @ + 1,
            !.previous = validation.result,
            !.result = compliance_execute(validation.result, validation.assignments,
                                          SampleStaff, validation.forecast,
                                          validation.calls + 1),
            !.found = validation.assignments,
            !.repeated = (validation.calls >= 1 /\ ~validation.changed),
            !.changed = FALSE]

ValidationNext ==
    \/ \E forecast \in Forecasts :
          validation_forecast(forecast) /\ UNCHANGED <<flowVars, configVars, besideValidation>>
    \/ \E a \in ValidatedUniverse :
          validation_add(a) /\ UNCHANGED <<flowVars, configVars, besideValidation>>
    \/ validate /\ UNCHANGED <<flowVars, configVars, besideValidation>>

----------------------------------------------------------------------------
(* MessageBus.send: a broadcast whose handlers call the bus *)

\* subscribers is a dict: its entry table keeps the keys in insertion order,
\* and del leaves the slot of the key in place, empty
Deleted == ""

\* the keys of the dict, in order
keys_of(entries) == SelectSeq(entries, LAMBDA n : n # Deleted)

\* del self.subscribers[agent_name]
del_subscriber(entries, name) ==
    [i \in 1..Len(entries) |-> IF entries[i] = name THEN Deleted ELSE entries[i]]

\* the names the handlers register and unregister, the receivers of the
\* messages they send, and the number of calls they make on the bus during
\* one broadcast (with so few insertions the entry table is never rebuilt)
ReentryNames == SeqRange(BusAgents) \cup {"Explainer"}
ReentryReceivers == {"None", "ConflictResolver"}
MaxHandlerCalls == 3

\* MessageBus() with the agents registered by their constructors; no
\* broadcast is running
ReentryInit ==
    reentry = [pc |-> "idle", entries |-> BusAgents, sender |-> "none",
               di_pos |-> 1, di_len |-> 0, di_used |-> 0,
               current |-> "none", calls |-> 0, invoked |-> <<>>,
               began |-> {}, gone |-> {}, nested |-> <<>>, error |-> "none"]

\* send of a message without receiver: the message is logged and the for
\* statement takes an iterator over self.subscribers.items(), which notes
\* the size of the dict
broadcast_begin(s) ==
    /\ reentry.pc = "idle"
    /\ LET n == Len(keys_of(reentry.entries))
       IN  reentry' = [reentry EXCEPT !.pc = "loop", !.sender = s,
                                      !.di_pos = 1, !.di_len = n, !.di_used = n,
                                      !.began = SeqRange(keys_of(reentry.entries))]

\* the first slot at or after i that holds a key, 0 when there is none
RECURSIVE next_entry(_, _)
next_entry(entries, i) ==
    IF i > Len(entries) THEN 0
    ELSE IF entries[i] # Deleted THEN i
    ELSE next_entry(entries, i + 1)

\* one turn of the for loop: the iterator raises when the size of the dict
\* is not the one it noted, stops after the last slot, raises when it finds
\* a key after it has handed out as many as the dict had; otherwise the body
\* runs, which calls the handler unless it is the sender's
broadcast_next ==
    /\ reentry.pc = "loop"
    /\ LET i == next_entry(reentry.entries, reentry.di_pos)
       IN  reentry' =
             IF reentry.di_used # Len(keys_of(reentry.entries))
             THEN [reentry EXCEPT !.pc = "raised",
                      !.error = "dictionary changed size during iteration"]
             ELSE IF i = 0 THEN [reentry EXCEPT !.pc = "done"]
             ELSE IF reentry.di_len = 0
             THEN [reentry EXCEPT !.pc = "raised",
                      !.error = "dictionary keys changed during iteration"]
             ELSE IF reentry.entries[i] = reentry.sender
             THEN [reentry EXCEPT !.di_pos = i + 1, !.di_len = @ - 1]
             ELSE [reentry EXCEPT !.di_pos = i + 1, !.di_len = @ - 1,
                                  !.pc = "handler",
                                  !.current = reentry.entries[i],
                                  !.invoked = Append(@, reentry.entries[i])]

\* the running handler calls bus.register(name, handler)
handler_register(name) ==
    /\ reentry.pc = "handler"
    /\ reentry.calls < MaxHandlerCalls
    /\ reentry' = [reentry EXCEPT !.entries = register(@, name),
                                  !.calls = @ + 1]

\* the running handler calls bus.unregister(name); with its own name this is
\* the last call of BaseAgent.shutdown
handler_unregister(name) ==
    /\ reentry.pc = "handler"
    /\ reentry.calls < MaxHandlerCalls
    /\ reentry' = [reentry EXCEPT
                      !.entries = IF InList(@, name) THEN del_subscriber(@, name)
                                  ELSE @,
                      !.gone = IF InList(reentry.entries, name)
                               THEN @ \cup {name} ELSE @,
                      !.calls = @ + 1]

\* the running handler calls bus.send(message), message.receiver = r: the
\* send inside runs to its return, its handlers call nothing
handler_send(r) ==
    /\ reentry.pc = "handler"
    /\ reentry.calls < MaxHandlerCalls
    /\ LET to == IF r = "None"
                 THEN SelectSeq(keys_of(reentry.entries),
                                LAMBDA n : n # reentry.current)
                 ELSE IF InList(reentry.entries, r) THEN <<r>> ELSE <<>>
       IN  reentry' = [reentry EXCEPT
                          !.nested = @ \o [k \in 1..Len(to) |->
                                              <<reentry.current, to[k]>>],
                          !.calls = @ + 1]

\* the running handler returns to the for loop
handler_return ==
    /\ reentry.pc = "handler"
    /\ reentry' = [reentry EXCEPT !.pc = "loop", !.current = "none"]

ReentryNext ==
    \/ \E s \in BusSenders :
          broadcast_begin(s) /\ UNCHANGED <<flowVars, configVars, besideReentry>>
    \/ broadcast_next /\ UNCHANGED <<flowVars, configVars, besideReentry>>
    \/ \E name \in ReentryNames :
          handler_register(name) /\ UNCHANGED <<flowVars, configVars, besideReentry>>
    \/ \E name \in ReentryNames :
          handler_unregister(name) /\ UNCHANGED <<flowVars, configVars, besideReentry>>
    \/ \E r \in ReentryReceivers :
          handler_send(r) /\ UNCHANGED <<flowVars, configVars, besideReentry>>
    \/ handler_return /\ UNCHANGED <<flowVars, configVars, besideReentry>>

----------------------------------------------------------------------------
(* DemandForecasterAgent.execute called more than once on one agent *)

\* the dates of the ranges and the number of calls
ForecastDates == SampleDates
MaxForecasts == 3

\* DemandForecasterAgent._forecast_day: the record of a date
forecast_day(d) ==
    [date |-> d,
     is_weekend |-> weekday(d) >= 5,
     shift_requirements |->
        [code \in {"1F", "2F", "3F"} |->
            [st \in SeqRange(get_active_stations) |-> shift_requirements(d, code, st)]]]

\* the while loop of execute: self.demand_forecast[current_date] = ... for
\* each date of the closed range, the other keys of the dict stay
forecast_range(forecast, start_date, end_date) ==
    [d \in DOMAIN forecast \cup {x \in ForecastDates : start_date <= x /\ x <= end_date} |->
        IF start_date <= d /\ d <= end_date THEN forecast_day(d) ELSE forecast[d]]

\* DemandForecasterAgent(message_bus): self.demand_forecast = {}
ForecastInit ==
    forecaster = [demand_forecast |-> << >>, calls |-> 0,
                  start_date |-> 0, end_date |-> 0, returned |-> << >>]

\* DemandForecasterAgent.execute: the days of the range are forecast into
\* self.demand_forecast, the forecast is sent to the Coordinator, and
\* self.demand_forecast is returned
forecaster_execute(start_date, end_date) ==
    /\ forecaster.calls < MaxForecasts
    /\ LET forecast == forecast_range(forecaster.demand_forecast, start_date, end_date)
       IN  forecaster' = [demand_forecast |-> forecast,
                          calls |-> forecaster.calls + 1,
                          start_date |-> start_date, end_date |-> end_date,
                          returned |-> forecast]
    /\ BusSend("data", "DemandForecaster", "Coordinator", "demand_forecast")

ForecastNext ==
    \/ \E start_date \in ForecastDates, end_date \in ForecastDates :
          /\ forecaster_execute(start_date, end_date)
          /\ UNCHANGED <<offBusVars, configVars, besideForecast>>
    \/ /\ bus_call.op = "send"
       /\ clear_history
       /\ UNCHANGED <<offBusVars, configVars, lateVars>>

----------------------------------------------------------------------------
(* DataLoaderAgent.execute called more than once on one agent *)

\* the number of calls, and of manager rows on the roster file
MaxLoads == 3
ManagersOnFile == 2

\* the rows a file can hold: lists without repetition of the ids or names
RowLists(n) ==
    UNION { { f \in [1..k -> 1..n] : \A i, j \in 1..k : i # j => f[i] # f[j] }
            : k \in 0..n }

\* the employee file: missing, unreadable (read_csv raises), or the ids of
\* its valid rows; the manager roster: missing, or the names of its rows
EmployeeFileStates ==
    {[state |-> "missing", rows |-> << >>], [state |-> "unreadable", rows |-> << >>]}
        \cup {[state |-> "ok", rows |-> r] : r \in RowLists(EmployeesOnFile)}
ManagerFileStates ==
    {[state |-> "missing", rows |-> << >>]}
        \cup {[state |-> "ok", rows |-> r] : r \in RowLists(ManagersOnFile)}

NoBundle ==
    [employees |-> << >>, managers |-> << >>, employee_count |-> -1,
     store_count |-> -1, manager_count |-> -1]
NoFile == [state |-> "none", rows |-> << >>]

\* DataLoaderAgent(message_bus): empty lists and dicts
ReloadInit ==
    reloader = [employee_file |-> NoFile, manager_file |-> NoFile,
                employees |-> << >>, stores |-> {}, managers |-> << >>,
                calls |-> 0, exc |-> "none", first |-> NoBundle, result |-> NoBundle]

\* DataLoaderAgent._load_employees; self.employees.append(employee) for
\* each valid row
reload_employees(employees, file) ==
    IF file.state = "ok" THEN employees \o file.rows ELSE employees

\* DataLoaderAgent._load_manager_roster; self.managers.append(manager) for
\* each manager row
reload_managers(managers, file) ==
    IF file.state = "ok" THEN managers \o file.rows ELSE managers

\* DataLoaderAgent.execute on the files ef and mf: _load_employees lets the
\* exception of read_csv out, otherwise the other loaders run, the bundle is
\* built from the agent's lists, the counts are sent to the Coordinator and
\* the bundle is returned
reloader_execute(ef, mf) ==
    /\ reloader.calls < MaxLoads
    /\ reloader.calls = 0 \/ (reloader.employee_file = ef /\ reloader.manager_file = mf)
    /\ IF ef.state = "unreadable"
       THEN /\ reloader' = [reloader EXCEPT !.employee_file = ef, !.manager_file = mf,
                                            !.calls = @ + 1, !.exc = "Exception"]
            /\ UNCHANGED busVars
       ELSE LET employees == reload_employees(reloader.employees, ef)
                managers  == reload_managers(reloader.managers, mf)
                stores    == reloader.stores \cup load_stores
                bundle    == [employees |-> employees, managers |-> managers,
                              employee_count |-> Len(employees),
                              store_count |-> Cardinality(stores),
                              manager_count |-> Len(managers)]
            IN  /\ reloader' = [employee_file |-> ef, manager_file |-> mf,
                                employees |-> employees, stores |-> stores,
                                managers |-> managers,
                                calls |-> reloader.calls + 1, exc |-> "none",
                                first |-> IF reloader.calls = 0 THEN bundle
                                          ELSE reloader.first,
                                result |-> bundle]
                /\ BusSend("data", "DataLoader", "Coordinator", "loaded")

ReloadNext ==
    \/ \E ef \in EmployeeFileStates, mf \in ManagerFileStates :
          /\ reloader_execute(ef, mf)
          /\ UNCHANGED <<offBusVars, configVars, besideReload>>
    \/ /\ bus_call.op = "send"
       /\ clear_history
       /\ UNCHANGED <<offBusVars, configVars, lateVars>>

UtilInit ==
    /\ LimiterInit /\ RetryInit /\ NegoInit /\ TwinInit
    /\ ApplyInit /\ ValidationInit /\ ReentryInit
    /\ ForecastInit /\ ReloadInit

\* every component as constructed, Coordinator.execute not called
InitComponents ==
    /\ SmokeInit
    /\ ScheduleInit /\ ResultInit /\ AgentInit /\ CoordIdle /\ BusInit
    /\ LoaderInit({"ok"}, {"Store_1"}) /\ PipelineInit /\ UtilInit

\* add_assignment / remove_assignment on one Schedule
SpecSchedule == InitComponents /\ [][ScheduleNext]_vars

\* add_violation / escalate_to_manager on one ComplianceResult
SpecCompliance == InitComponents /\ [][ComplianceNext]_vars

SpecScore == InitComponents /\ [][ScoreNext]_vars

SpecSoft == InitComponents /\ [][SoftNext]_vars

\* the auto-apply branch of ConflictResolver.execute on one Schedule
SpecApply == InitComponents /\ [][ApplyNext]_vars

\* the Staff Matcher's requests and the resolver on one schedule
SpecBookkeeping == InitComponents /\ [][BookkeepingNext]_vars
SpecReentry == InitComponents /\ [][ReentryNext]_vars
SpecForecast == InitComponents /\ [][ForecastNext]_vars
SpecReload == InitComponents /\ [][ReloadNext]_vars

\* ComplianceValidator.execute called repeatedly on one Schedule
SpecValidation == InitComponents /\ [][ValidationNext]_vars

\* StaffMatcher.execute, then rounds of ConflictResolver.execute
SpecPipeline == InitComponents /\ [][PipelineNext]_vars

\* the same with add_assignment requests
SpecRostering == InitComponents /\ [][RosteringNext]_vars

\* one iteration of the for loop of ConflictResolver.execute as a step of the
\* pipeline
resolver_step ==
    /\ resolve_next
    /\ UNCHANGED <<schedVars, resVars, agentVars, coordVars, busVars,
                   sideVars, employee_hours, slot, matcher_call>>

\* StaffMatcher.execute on a fresh schedule, then one call of
\* ConflictResolver.execute on the schedule it returned
ResolverNext ==
    \/ matcher_execute
       /\ UNCHANGED <<schedVars, resVars, agentVars, coordVars, busVars,
                      sideVars, resolverVars>>
    \/ match_slot
       /\ UNCHANGED <<schedVars, resVars, agentVars, coordVars, busVars,
                      sideVars, resolverVars>>
    \/ \E idx \in WorkingSets :
          /\ resolver_pc = "idle"
          /\ resolver_execute(FindingsAt(idx))
          /\ UNCHANGED <<schedVars, resVars, agentVars, coordVars, busVars,
                         sideVars, employee_hours, slot, matcher_call>>
    \/ resolver_step

\* a call of ConflictResolver.execute running on: the loops of execute are
\* sequential code that nothing suspends
SpecResolver ==
    InitComponents /\ [][ResolverNext]_vars /\ WF_vars(resolver_step)

\* a schedule is filled, then the validator's weekly-hours check runs on it
SpecHours == InitComponents /\ [][HoursNext]_vars

\* a schedule built up and handed to the rest-period check
SpecRest == InitComponents /\ [][RestNext]_vars

\* a schedule filled date by date and handed to the consecutive-days check
SpecConsecutive == InitComponents /\ [][ConsecutiveNext]_vars

\* calls on one RateLimiter while time passes
SpecLimiter == InitComponents /\ [][LimiterNext]_vars

\* calls of functions wrapped by retry_with_backoff
SpecRetry == InitComponents /\ [][RetryNext]_vars

\* negotiations of the conflict resolver
SpecNegotiation == InitComponents /\ [][NegotiationNext]_vars

\* StaffMatcherAgent.execute called twice with the same arguments
SpecTwin == InitComponents /\ [][TwinNext]_vars

\* Coordinator.execute on the smoke scenario, for a roster of each
\* employee type
SpecSmoke == InitComponents /\ [][SmokeNext]_vars

\* lifecycle calls on one agent
SpecAgent == InitComponents /\ [][AgentNext]_vars

\* register / unregister / send / clear_history on one MessageBus
SpecBus == InitComponents /\ [][BusNext]_vars

\* Coordinator.execute with a budget of 0..MaxIterations rounds
InitCoordinator ==
    /\ SmokeInit
    /\ ScheduleInit /\ ResultInit /\ AgentInit /\ CoordInit(0..MaxIterations)
    /\ BusInit /\ LoaderInit(EmployeeFiles, StoreIds) /\ PipelineInit /\ UtilInit
NextCoordinator == CoordNext(SmallFindings)
SpecCoordinator == InitCoordinator /\ [][NextCoordinator]_vars

\* Coordinator.execute with validations that report every type of violation
InitEscalation ==
    /\ SmokeInit
    /\ ScheduleInit /\ ResultInit /\ AgentInit /\ CoordInit(0..1)
    /\ BusInit /\ LoaderInit({"ok"}, {"Store_1"}) /\ PipelineInit /\ UtilInit
NextEscalation == CoordNext(RichFindings)
SpecEscalation == InitEscalation /\ [][NextEscalation]_vars

Spec == SpecCoordinator

----------------------------------------------------------------------------
(* Claims about the Schedule *)

IndexConsistentFor(a) ==
    /\ Count(get_assignments_by_date(a.date), a) = Count(assignments, a)
    /\ Count(get_assignments_by_employee(a.employee), a) = Count(assignments, a)
    /\ Count(get_assignments_by_station(a.station), a) = Count(assignments, a)

\* C2: after any sequence of add_assignment and remove_assignment calls, every
\* assignment occurs in the assignment list exactly as often as in the
\* by-date lookup for its date, the by-employee lookup for its employee and
\* the by-station lookup for its station (so it is in one iff in all four).
C2_IndexesAgreeWithList ==
    \A a \in SchedUniverse : IndexConsistentFor(a)

\* C2 witness: an assignment held twice, after a remove that took effect
C2_Witness ==
    /\ last_call.op = "remove"
    /\ last_call.ret = "True"
    /\ \E a \in SchedUniverse :
          Count(assignments, a) = 2 /\ Count(get_assignments_by_station(a.station), a) = 2

\* C3: remove_assignment called with a locked assignment, or with one that is
\* not in the schedule, returns False (it does not raise) and leaves the
\* assignment list and the three indexes as they were.
C3_RefusedRemoveChangesNothing ==
    [][ (last_call'.op = "remove"
         /\ (last_call'.arg.is_locked \/ ~InList(assignments, last_call'.arg)))
        => /\ last_call'.ret = "False"
           /\ assignments' = assignments
           /\ by_date' = by_date
           /\ by_employee' = by_employee
           /\ by_station' = by_station ]_vars

\* C3 witness: a refused remove of a locked assignment that is in the schedule
C3_Witness ==
    /\ last_call.op = "remove"
    /\ last_call.ret = "False"
    /\ last_call.arg.is_locked
    /\ InList(assignments, last_call.arg)

----------------------------------------------------------------------------
(* Claims about the ComplianceResult *)

\* C4: for a ComplianceResult created compliant and empty, after any sequence
\* of add_violation and escalate_to_manager calls, is_compliant is true if and
\* only if the hard-violation list is empty; warnings and pending approvals
\* never make it false.
C4_CompliantIffNoHardViolations ==
    result.is_compliant <=> (Len(result.violations) = 0)

\* C4 witness: compliant again after an escalation, with a warning and a
\* pending approval on the result
C4_Witness ==
    /\ res_call.op = "escalate"
    /\ result.is_compliant
    /\ Len(result.warnings) > 0
    /\ Len(result.pending_approvals) > 0

\* w is the violation v after an escalation for reason: v's own fields and
\* details are kept, the reason is stored and the approval suggestion leads
IsEscalationOf(w, v, reason) ==
    /\ w.constraint_type = v.constraint_type
    /\ w.severity = v.severity
    /\ w.affected_entity = v.affected_entity
    /\ w.affected_date = v.affected_date
    /\ \A k \in DOMAIN v.details \ {"escalation_reason", "requires_manager_approval"} :
          k \in DOMAIN w.details /\ w.details[k] = v.details[k]
    /\ "escalation_reason" \in DOMAIN w.details
    /\ w.details["escalation_reason"] = reason
    /\ Len(w.suggestions) = Len(v.suggestions) + 1
    /\ w.suggestions[1] = <<"MANAGER APPROVAL REQUIRED", reason>>
    /\ Tail(w.suggestions) = v.suggestions

\* C5: escalate_to_manager(v, reason) for v in the hard-violation list removes
\* exactly one entry (one equal to v) from that list and appends v to the
\* pending approvals, with the reason stored on it and the MANAGER APPROVAL
\* REQUIRED suggestion first; for v not in the list it changes nothing.
C5_EscalationTransition ==
    [][ res_call'.op = "escalate" =>
          LET v == res_call'.arg
              reason == res_call'.reason
          IN  IF InList(result.violations, v)
              THEN /\ Len(result'.violations) = Len(result.violations) - 1
                   /\ \A x \in SeqRange(result.violations) :
                         Count(result'.violations, x)
                           = Count(result.violations, x) - (IF x = v THEN 1 ELSE 0)
                   /\ Len(result'.pending_approvals) = Len(result.pending_approvals) + 1
                   /\ SubSeq(result'.pending_approvals, 1, Len(result.pending_approvals))
                        = result.pending_approvals
                   /\ IsEscalationOf(
                          result'.pending_approvals[Len(result'.pending_approvals)],
                          v, reason)
                   /\ result'.warnings = result.warnings
              ELSE result' = result ]_vars

\* C5 witness: one of two equal hard violations was escalated, the other is
\* still in the list
C5_Witness ==
    /\ res_call.op = "escalate"
    /\ Len(result.pending_approvals) > 0
    /\ InList(result.violations, res_call.arg)
    /\ IsEscalationOf(result.pending_approvals[Len(result.pending_approvals)],
                      res_call.arg, res_call.reason)

----------------------------------------------------------------------------
(* Claims about the weekly-hours check *)

\* the entries of a list about employee e in schedule week w
HoursEntries(xs, e, w) ==
    SelectSeq(xs, LAMBDA v :
        /\ v.affected_entity = e
        /\ "week" \in DOMAIN v.details
        /\ v.details["week"] = w + 1)

MaxHoursEntries(xs, e, w) ==
    SelectSeq(HoursEntries(xs, e, w), LAMBDA v : v.constraint_type = "hours_max")

HoursWeeks == {get_week_number(d) : d \in HoursDates}

\* C1: in the weekly-hours check, for every employee and schedule week with
\* assigned hours h, category minimum lo and maximum hi: h > hi yields exactly
\* one hard max-hours violation; h = hi yields no max-hours violation; and
\* lo <= h <= hi with h >= 0.85 * hi yields only the informational
\* "approaching max hours" soft warning, which leaves is_compliant unchanged
\* and subtracts nothing from the score.
C1_HoursCheckClaim ==
    res_call.op = "check_hours" =>
      /\ \A e \in HoursEmployees, w \in HoursWeeks :
            LET h  == WeeklyHalfHours(assignments, e, w)
                lo == hours_limits(EmployeeTypeOf(e))[1]
                hi == hours_limits(EmployeeTypeOf(e))[2]
            IN  /\ h > hi => Len(MaxHoursEntries(result.violations, e, w)) = 1
                /\ h = hi => Len(MaxHoursEntries(result.violations, e, w)) = 0
                /\ (lo <= h /\ h <= hi /\ 100 * h >= 85 * hi) =>
                      /\ Len(HoursEntries(result.violations, e, w)) = 0
                      /\ Len(HoursEntries(result.warnings, e, w)) = 1
                      /\ DictGet(HoursEntries(result.warnings, e, w)[1].details,
                                 "alert_type", "None") = "approaching_limit"
      /\ (\A e \in HoursEmployees, w \in HoursWeeks :
             LET h == WeeklyHalfHours(assignments, e, w)
             IN  h = 0 \/ (hours_limits(EmployeeTypeOf(e))[1] <= h
                           /\ h <= hours_limits(EmployeeTypeOf(e))[2]))
         => (result.is_compliant /\ result.score = 100000)

----------------------------------------------------------------------------
(* Claims about the agent lifecycle *)

----------------------------------------------------------------------------
(* Claims about Coordinator.execute *)

IsLoopValidation(ev) == ev[1] = "validate" /\ ev[2] = "loop"
IsResolution(ev) == ev[1] = "resolve"
IsFinalValidation(ev) == ev[1] = "validate" /\ ev[2] = "final"
IsShutdown(ev) == ev[1] \in {"shutdown", "shutdown_failed"}

\* what the validation / refinement loop has done, in order
LoopEvents == SelectSeq(events, LAMBDA ev : IsLoopValidation(ev) \/ IsResolution(ev))
LoopValidations == SelectSeq(events, IsLoopValidation)
LoopResolutions == SelectSeq(events, IsResolution)

\* the loop has been left without an exception
LoopEnded ==
    pc = "final_validation" \/ \E i \in 1..Len(events) : IsFinalValidation(events[i])

\* C6: in the manager-escalation phase, whatever hard violations the final
\* validation left (availability, skill, max hours, rest period, consecutive
\* days, overall or per-station minimum staffing), the phase completes without
\* raising, every violation it escalated is in the pending approvals with a
\* non-empty escalation reason, and the hard-violation list is empty
\* afterwards.
C6_EscalationHandlesEveryType ==
    \A i \in 1..Len(events) :
        events[i][1] = "escalation" =>
            /\ events[i][3] = "done"
            /\ final_result.violations = <<>>
            /\ \A j \in 1..Len(final_result.pending_approvals) :
                  DictGet(final_result.pending_approvals[j].details,
                          "escalation_reason", "") # ""

\* C7: with iteration budget N the loop runs the validator at most N times and
\* the resolver at most N times; the resolver runs only directly after a
\* validation that reported non-compliance; and the loop ends at the first
\* compliant validation, or directly after a resolver run that applied no
\* resolution, or after N rounds, whichever comes first.
C7_LoopDiscipline ==
    LET L == LoopEvents
    IN  /\ Len(LoopValidations) <= max_iterations
        /\ Len(LoopResolutions) <= max_iterations
        /\ \A i \in 1..Len(L) :
              IsResolution(L[i]) =>
                  i > 1 /\ L[i - 1] = Event("validate", "loop", "non-compliant")
        /\ \A i \in 1..(Len(L) - 1) :
              /\ L[i] # Event("validate", "loop", "compliant")
              /\ L[i] # Event("resolve", "", "none")
              /\ L[i] = Event("validate", "loop", "non-compliant")
                    => IsResolution(L[i + 1])
        /\ LoopEnded =>
              \/ Len(L) = 0 /\ max_iterations = 0
              \/ Len(L) > 0 /\ L[Len(L)] = Event("validate", "loop", "compliant")
              \/ Len(L) > 0 /\ L[Len(L)] = Event("resolve", "", "none")
              \/ /\ Len(L) > 0 /\ L[Len(L)] = Event("resolve", "", "some")
                 /\ Len(LoopValidations) = max_iterations

\* C7 witness: a budget of two rounds used up, both resolver runs applying
\* resolutions
C7_Witness ==
    /\ max_iterations = 2
    /\ LoopEnded
    /\ LoopEvents = << Event("validate", "loop", "non-compliant"),
                       Event("resolve", "", "some"),
                       Event("validate", "loop", "non-compliant"),
                       Event("resolve", "", "some") >>

\* positions in events of the final validations, and of the phases after it
FinalValidationAt == {i \in 1..Len(events) : IsFinalValidation(events[i])}
LaterPhaseAt ==
    {i \in 1..Len(events) :
        \/ events[i][1] = "escalation"
        \/ events[i][1] = "phase" /\ events[i][2] \in {"explain", "export", "report"}}
LoopEventAt ==
    {i \in 1..Len(events) : IsLoopValidation(events[i]) \/ IsResolution(events[i])}

\* C8: after the loop ends for any reason (compliant, no resolution applied,
\* budget used up, or a budget of zero rounds), exactly one further validation
\* runs before the escalation, and the escalation, the explanation, the export
\* and the report are handed that final result, not one computed in the loop.
C8_FinalValidationDecides ==
    /\ Cardinality(FinalValidationAt) <= 1
    /\ \A i \in FinalValidationAt : \A j \in LoopEventAt : j < i
    /\ \A k \in LaterPhaseAt :
          /\ Cardinality(FinalValidationAt) = 1
          /\ \A i \in FinalValidationAt :
                i < k /\ events[i][3] # "Exception"
    /\ \A name \in DOMAIN used_result :
          used_result[name] # 0 =>
              /\ used_result[name] = ValidationsRun
              /\ used_result[name] = final_result.checked_at
    /\ pc \in {"explain", "export", "report", "returned"} =>
          /\ used_result.escalation = ValidationsRun
          /\ Cardinality(FinalValidationAt) = 1
    /\ pc = "returned" =>
          \A name \in DOMAIN used_result : used_result[name] = ValidationsRun

\* C8 witness: the loop stopped because no resolution was applied, and the
\* run returned a report built from the validation made after the loop
C8_Witness ==
    /\ pc = "returned"
    /\ Len(LoopEvents) > 0
    /\ LoopEvents[Len(LoopEvents)] = Event("resolve", "", "none")
    /\ ~compliance_result.is_compliant
    /\ compliance_result.checked_at < final_result.checked_at
    /\ used_result.report = final_result.checked_at

Startups == SelectSeq(events, LAMBDA ev : ev[1] = "startup")
Shutdowns == SelectSeq(events, IsShutdown)

\* C9: once execute has started the sub-agents, on every path (normal return
\* or an exception in any later phase) all seven sub-agents are shut down in
\* the exact reverse of their startup order before execute returns or
\* propagates, even if one agent's shutdown itself fails; a failure is
\* propagated to the caller, after these shutdowns; on success the COMPLETE
\* broadcast is sent before the first shutdown.
C9_ShutdownInReverseOrder ==
    /\ pc \in {"returned", "raised"} =>
          /\ Len(Startups) = 7
          /\ Len(Shutdowns) = 7
          /\ \A i \in 1..7 : Shutdowns[i][2] = Startups[8 - i][2]
          /\ \A a \in SubAgents : sub_state[a] = "shutdown"
    /\ pc \notin {"returned", "raised", "called"} => Len(Startups) = 7
    /\ pc \notin {"returned", "raised"} => Len(Shutdowns) = 0
    /\ pc = "returned" =>
          /\ pending_exc = "none"
          /\ \A i \in 1..Len(events) : events[i][3] \notin
                 {"Exception", "RuntimeError", "ValueError", "AttributeError"}
          /\ \E b \in 1..Len(events) :
                /\ events[b] = Event("broadcast", "COMPLETE", "")
                /\ \A i \in 1..Len(events) : IsShutdown(events[i]) => b < i
    /\ pc = "raised" => pending_exc # "none"
    /\ (pending_exc # "none" /\ pc \in {"returned", "raised"}) => pc = "raised"

\* C9 witness: the run failed in a phase, one sub-agent's shutdown failed too,
\* and the exception reached the caller
C9_Witness ==
    /\ pc = "raised"
    /\ \E i \in 1..Len(events) :
          events[i][1] = "shutdown_failed" /\ events[i][2] = "ConflictResolver"
    /\ Shutdowns[7][2] = "DataLoader"

----------------------------------------------------------------------------
(* Claims about shutdown and the message bus *)

\* C11: after shutdown() returns, the agent's lifecycle state is Shutdown,
\* the agent is inactive, health_check() is false and the agent's name is not
\* registered on the message bus; and all of this stays so until startup()
\* is called.
C11_ShutdownIsFinal ==
    [][ /\ agent_call'.op = "shutdown" =>
              /\ agent_state' = "shutdown"
              /\ ~is_active'
              /\ ~health_check'
              /\ ~InList(subscribers', AgentName)
        /\ ( /\ agent_state = "shutdown"
             /\ ~is_active
             /\ ~health_check
             /\ ~InList(subscribers, AgentName)
             /\ agent_call'.op # "startup" ) =>
              /\ agent_state' = "shutdown"
              /\ ~is_active'
              /\ ~health_check'
              /\ ~InList(subscribers', AgentName) ]_vars

\* the handlers invoked for message id, in order
Invoked(trace, id) ==
    LET es == SelectSeq(trace, LAMBDA e : e[1] = "enter" /\ e[3] = id)
    IN  [i \in 1..Len(es) |-> es[i][2]]

\* every name a handler may be registered or addressed under
AllBusNames == SeqRange(BusAgents) \cup BusSenders \cup (BusReceivers \ {"None"})

\* C12: MessageBus.send invokes, for a message with no receiver, every handler
\* registered at that moment except the one registered under the sender's
\* name, each exactly once; for a message whose receiver is registered,
\* exactly that one handler; and for a message whose receiver is not
\* registered, no handler at all, returning normally.  (Checked for the
\* message sent and for every message sent by a handler during the call.)
C12_Routing ==
    [][ bus_call'.op = "send" =>
          /\ subscribers' = subscribers
          /\ \A k \in (Len(message_history) + 1)..Len(message_history') :
                LET m   == message_history'[k]
                    inv == Invoked(bus_trace', m.id)
                IN  /\ InList(bus_trace', BusEvent("return", "", m.id))
                    /\ \A n \in AllBusNames :
                          Count(inv, n) =
                            IF m.receiver = "None"
                            THEN (IF InList(subscribers, n) /\ n # m.sender
                                  THEN 1 ELSE 0)
                            ELSE (IF n = m.receiver /\ InList(subscribers, n)
                                  THEN 1 ELSE 0) ]_vars

\* C12 witness: a broadcast by a registered sender reached the two other
\* handlers, and a handler's response to an unregistered sender was dropped
C12_Witness ==
    /\ bus_call.op = "send"
    /\ bus_call.arg.receiver = "None"
    /\ bus_call.arg.sender = "Coordinator"
    /\ InList(subscribers, "Coordinator")
    /\ Len(Invoked(bus_trace, bus_call.arg.id)) = 2
    /\ \E i \in 1..Len(bus_trace) : bus_trace[i][1] = "enter" /\ bus_trace[i][3] # bus_call.arg.id

\* the trace is that of nested calls: a send begins at top level or inside a
\* running handler, a handler runs for the send that is innermost, and each
\* returns before the one around it goes on
RECURSIVE NestingScan(_, _, _)
NestingScan(trace, i, stack) ==
    IF i > Len(trace) THEN stack = <<>>
    ELSE LET e   == trace[i]
             top == IF stack = <<>> THEN BusEvent("", "", 0) ELSE stack[Len(stack)]
             pop == SubSeq(stack, 1, Len(stack) - 1)
         IN  CASE e[1] = "send" ->
                    /\ stack = <<>> \/ top[1] = "enter"
                    /\ NestingScan(trace, i + 1, Append(stack, e))
               [] e[1] = "enter" ->
                    /\ top[1] = "send" /\ top[3] = e[3]
                    /\ NestingScan(trace, i + 1, Append(stack, e))
               [] e[1] = "exit" ->
                    /\ top = BusEvent("enter", e[2], e[3])
                    /\ NestingScan(trace, i + 1, pop)
               [] e[1] = "not_found" ->
                    /\ top[1] = "send" /\ top[3] = e[3]
                    /\ NestingScan(trace, i + 1, stack)
               [] e[1] = "return" ->
                    /\ top = BusEvent("send", "", e[3])
                    /\ NestingScan(trace, i + 1, pop)
               [] OTHER -> FALSE

\* C13: send runs each receiving handler to completion before it returns; a
\* message sent by a handler is fully delivered (its own nested sends
\* included) before that handler resumes and before an outer broadcast moves
\* on to its next subscriber: delivery is depth-first and when send has
\* returned no message is left undelivered.
C13_DepthFirstDelivery == NestingScan(bus_trace, 1, <<>>)

\* C13 witness: during a broadcast the validator's handler sent a message to
\* the Conflict Resolver, which handled it before the broadcast reached it
C13_Witness ==
    /\ bus_call.op = "send"
    /\ bus_call.arg.receiver = "None"
    /\ \E i, j \in 1..Len(bus_trace) :
          /\ i < j
          /\ bus_trace[i][1] = "exit"
          /\ bus_trace[i][2] = "ConflictResolver"
          /\ bus_trace[i][3] # bus_call.arg.id
          /\ bus_trace[j] = BusEvent("enter", "ConflictResolver", bus_call.arg.id)

\* the ids of the messages whose send began, in that order
SendsBegun ==
    LET es == SelectSeq(bus_trace, LAMBDA e : e[1] = "send")
    IN  [i \in 1..Len(es) |-> es[i][3]]

IsPrefix(xs, ys) == Len(xs) <= Len(ys) /\ SubSeq(ys, 1, Len(xs)) = xs

\* C14: every call to send appends exactly one entry to the history before any
\* handler runs, dropped messages included; the order of the history is the
\* order in which the send calls began; and no operation other than
\* clear_history removes, reorders or alters entries.
C14_HistoryIsSendOrder ==
    /\ [](/\ [k \in 1..Len(message_history) |-> message_history[k].id] = SendsBegun
          /\ \A p \in 1..Len(bus_trace) :
                bus_trace[p][1] \in {"enter", "not_found"} =>
                    \E k \in 1..Len(message_history) :
                        /\ message_history[k].id = bus_trace[p][3]
                        /\ k <= Cardinality({q \in 1..p : bus_trace[q][1] = "send"}))
    /\ [][ bus_call'.op # "clear_history" =>
              IsPrefix(message_history, message_history') ]_vars

\* C14 witness: the history holds a broadcast followed by the messages the
\* handlers sent during it, one of them dropped
C14_Witness ==
    /\ Len(message_history) >= 3
    /\ message_history[1].receiver = "None"
    /\ bus_trace[Len(bus_trace)] = BusEvent("return", "", message_history[1].id)
    /\ \E p \in 1..Len(bus_trace) : bus_trace[p][1] = "not_found"

----------------------------------------------------------------------------
(* Claims about data loading *)

LaterPhaseRan ==
    \E i \in 1..Len(events) :
        \/ events[i][1] = "phase"
           /\ events[i][2] \in {"store_lookup", "demand_forecasting", "staff_matching"}
        \/ events[i][1] \in {"validate", "resolve"}

\* C20: if the employee availability table cannot be loaded (missing,
\* unreadable or malformed), DataLoader.execute raises instead of returning a
\* bundle, and Coordinator.execute aborts with a data-loading failure before
\* forecasting, matching or validation run.
C20_EmployeeFileFailureIsFatal ==
    employee_file \in {"missing", "unreadable", "malformed"} =>
        /\ data = NoData
        /\ ~LaterPhaseRan
        /\ \A i \in 1..Len(events) :
              (events[i][1] = "phase" /\ events[i][2] = "data_loading")
                  => events[i][3] = "RuntimeError"
        /\ pc \notin {"store_check", "phase2", "phase3", "loop", "resolve",
                      "final_validation", "escalation", "explain", "export",
                      "report", "returned"}

----------------------------------------------------------------------------
(* Claims about the Staff Matcher and the Conflict Resolver *)

\* the assignments an employee holds on a date
OnDay(e, d) == {a \in schedule : a.employee = e /\ a.date = d}

\* C15: at every point of StaffMatcher.execute and of the rounds of
\* ConflictResolver.execute that follow it, no employee has two assignments
\* on the same date.
C15_OneAssignmentPerDay ==
    /\ ~double_booked
    /\ \A e \in RosterSet, d \in RosterDates : Cardinality(OnDay(e, d)) <= 1

\* a resolver round has changed a schedule in which an employee works a day
\* they are available for on two shift codes
C15_Witness ==
    /\ resolver_pc = "returned"
    /\ applied_resolutions > 0
    /\ \E a \in schedule :
          /\ a.employee = "ca" /\ a.date = 5
          /\ employee_is_available("ca", 5, "1F")
          /\ employee_is_available("ca", 5, "3F")

\* C16: at every point of StaffMatcher.execute and of the rounds of
\* ConflictResolver.execute that follow it, every assignment is for a date
\* and shift code its employee is available for and for a station in the
\* employee's skill set.
C16_AvailableAndQualified ==
    \A a \in schedule :
        /\ employee_is_available(a.employee, a.date, a.shift_type)
        /\ employee_can_work_station(a.employee, a.station)

\* the resolver has just swapped in a replacement for an availability
\* finding, and the cross-trained employee works the station that is not
\* their primary one
C16_Witness ==
    /\ last_step.applied
    /\ last_step.violation.constraint_type = "availability"
    /\ \E a \in schedule :
          a.employee = "ft" /\ a.station # primary_station("ft")

\* C17: at every point of StaffMatcher.execute and of the rounds of
\* ConflictResolver.execute that follow it, any two assignments of one
\* employee on different dates leave at least 10 hours between the end of
\* the earlier shift and the start of the later one.
C17_TenHoursRest ==
    \A a \in schedule, b \in schedule :
        a.employee = b.employee /\ a.date < b.date
            => get_start_datetime(b) - get_end_datetime(a) >= 2 * MIN_REST_HOURS

\* the matcher is done and the resolver has applied a resolution; one
\* employee works an afternoon shift and is left out of the next morning
\* they are available for, another works on two consecutive dates
C17_Witness ==
    /\ resolver_pc = "returned" /\ applied_resolutions > 0
    /\ \E a \in schedule : a.employee = "ft" /\ a.date = 4 /\ a.shift_type = "2F"
    /\ employee_is_available("ft", 5, "1F") /\ ~is_employee_assigned(schedule, "ft", 5)
    /\ \E a \in schedule, b \in schedule :
          a.employee = "ca" /\ b.employee = "ca" /\ b.date = a.date + 1

\* the hours the schedule holds for every employee in every schedule week
\* are within the employee's category maximum
WithinWeeklyMaximum ==
    \A e \in RosterSet, w \in RosterWeeks :
        current_hours(schedule, e, w) <= weekly_hours_target(e)[2]

\* execute returns its schedule in this step
ExecuteReturns == ~ExecuteReturned /\ ExecuteReturned'

\* add_assignment returns an assignment in this step: it is the only step
\* after execute that records hours
AddAssignmentReturns ==
    /\ ExecuteReturned
    /\ matcher_call'.op = "add_assignment" /\ matcher_call'.ret = "assignment"
    /\ employee_hours' # employee_hours

\* C18: in the schedule StaffMatcher.execute returns, and after every
\* add_assignment call that returns an assignment, no employee's hours in a
\* schedule week exceed the maximum of the employee's category.
C18_WeeklyHoursWithinMaximum ==
    [][(ExecuteReturns \/ AddAssignmentReturns) => WithinWeeklyMaximum']_vars

\* what holds of ConflictResolver.execute at every point: at most
\* max_iterations passes, a pass only over a non-empty working set, a return
\* only with the working set empty or the passes used up, and as many
\* resolutions applied as violations removed
ResolverBounded ==
    /\ resolver_iteration <= resolver_max_iterations
    /\ applied_resolutions = removed
    /\ resolver_pc = "pass" => violations # <<>> /\ todo # <<>>
    /\ resolver_pc = "returned" =>
          violations = <<>> \/ resolver_iteration = resolver_max_iterations

\* a step of a pass that shortens the working set removes the one violation
\* the step handled, and a resolution generated for it was applied
RemovedOnlyWhenApplied ==
    resolver_pc = "pass" /\ Len(violations') < Len(violations) =>
        /\ last_step'.applied /\ last_step'.generated
        /\ last_step'.violation = Head(todo)
        /\ Len(violations') = Len(violations) - 1
        /\ applied_resolutions' = applied_resolutions + 1

\* C19: ConflictResolver.execute terminates after at most 10 passes over its
\* working set and stops as soon as the set is empty; a violation leaves the
\* set only when a resolution generated for it was applied, and the number
\* of applied resolutions equals the number of violations removed.
C19_ResolverTerminates ==
    /\ []ResolverBounded
    /\ [][RemovedOnlyWhenApplied]_vars
    /\ (resolver_pc = "pass") ~> (resolver_pc = "returned")

\* execute has given up after its last pass on a violation it finds no
\* resolution for
C19_Witness ==
    /\ resolver_pc = "returned"
    /\ resolver_iteration = resolver_max_iterations
    /\ violations # <<>>
    /\ ~last_step.generated /\ last_step.violation = Head(violations)

----------------------------------------------------------------------------
(* Claims about the store lookup *)

\* the lookup of the requested store has run
StoreLookedUp ==
    \E i \in 1..Len(events) : events[i][1] = "phase" /\ events[i][2] = "store_lookup"

\* shutdown() was called on every sub-agent
ShutdownCalledOnAll ==
    \A a \in SubAgents :
        \E i \in 1..Len(events) :
            events[i][1] \in {"shutdown", "shutdown_failed"} /\ events[i][2] = a

\* C21: when the requested store id is not in the loaded store map,
\* Coordinator.execute raises to the caller: after the lookup it is in its
\* except block, its finally block or has raised, no forecasting, matching,
\* validation, resolution, explanation, export or report has run, no
\* COMPLETE broadcast was sent, and shutdown() was called on every sub-agent
\* before the exception reaches the caller.
C21_UnknownStoreIsFatal ==
    (StoreLookedUp /\ store_id \notin data.stores) =>
        /\ pc \in {"except", "finally", "raised"}
        /\ pending_exc = "ValueError"
        /\ \A i \in 1..Len(events) :
              /\ events[i][1] \notin {"validate", "resolve", "escalation", "broadcast"}
              /\ events[i][1] = "phase" =>
                    events[i][2] \in {"data_loading", "store_lookup"}
        /\ pc = "raised" => ShutdownCalledOnAll

\* the data was loaded, the requested store is not among the stores, and the
\* ValueError has reached the caller
C21_Witness ==
    /\ pc = "raised"
    /\ data # NoData /\ store_id \notin data.stores
    /\ \E i \in 1..Len(events) : events[i] = Event("phase", "store_lookup", "ValueError")

----------------------------------------------------------------------------
(* Claims about the score across an escalation *)

\* escalate_to_manager found its violation in result.violations and moved it
EscalationApplied ==
    /\ res_call'.op = "escalate"
    /\ result' # result
    /\ InList(result.violations, res_call'.arg)

\* the score read just before the escalated violation was added
ScoreBeforeItsAdd ==
    score_at_add[FirstIndex(result.violations, res_call'.arg)]

\* C22: an escalation that moves a violation leaves the score strictly higher
\* than it was just before the escalation and not higher than it was just
\* before that violation was added, whatever other add_violation and
\* escalate_to_manager calls came before or in between; the score always
\* stays within 0..100 (thousandths of a point: 0..100000).
C22_EscalationRestoresPartOfPenalty ==
    [][/\ EscalationApplied => /\ result'.score > result.score
                               /\ result'.score <= ScoreBeforeItsAdd
       /\ result'.score \in 0..100000]_vars


----------------------------------------------------------------------------
(* Claims about soft violations and the score *)

\* add_violation was just called with a soft violation
SoftAdded ==
    /\ res_call'.op = "add"
    /\ ~is_hard_constraint(res_call'.arg)
    /\ result'.warnings = Append(result.warnings, res_call'.arg)

\* C23: add_violation with a soft violation never lowers the score by more
\* than 0.5 point (500 thousandths), never raises it and never changes
\* is_compliant; with an informational soft violation it leaves the score
\* exactly as it was.
C23_SoftPenaltyBounded ==
    [][SoftAdded =>
         /\ result'.score <= result.score
         /\ result.score - result'.score <= 500
         /\ result'.is_compliant = result.is_compliant
         /\ result'.violations = result.violations
         /\ is_informational_warning(res_call'.arg)
               => result'.score = result.score]_vars

\* an informational soft violation was added to a result that already holds
\* a hard violation and a penalised warning
C23_Witness ==
    /\ res_call.op = "add"
    /\ ~is_hard_constraint(res_call.arg)
    /\ is_informational_warning(res_call.arg)
    /\ ~result.is_compliant
    /\ result.score < 100000
    /\ \E i \in 1..Len(result.warnings) :
          calculate_soft_penalty(result.warnings[i]) > 0


----------------------------------------------------------------------------
(* Claims about the validator's rest-period check *)

\* the employee's shifts in chronological order (date, then start time)
ShiftsInOrder(e) ==
    sorted_by_start(SelectSeq(assignments, LAMBDA a : a.employee = e))

\* the rest-period findings the result holds for the employee
RestFindings(e) ==
    SelectSeq(result.violations,
              LAMBDA v : v.constraint_type = "rest_period" /\ v.affected_entity = e)

\* C24: after the rest-period check, for every employee of the validator the
\* result holds one hard rest-period violation, dated on the later shift, for
\* each pair of chronologically adjacent shifts whose gap (later start minus
\* earlier end) is under 10 hours (20 half hours), in the order of the pairs,
\* and none for a pair whose gap is 10 hours or more; 2F followed by next-day
\* 1F (7.5 h) is flagged, 1F followed by next-day 2F (22.5 h) is not.
C24_RestCheckFlagsShortGaps ==
    res_call.op = "check_rest" =>
      \A e \in RestRoster :
         LET s     == ShiftsInOrder(e)
             gap(i) == get_start_datetime(s[i + 1]) - get_end_datetime(s[i])
             short == {i \in 1..(Len(s) - 1) : gap(i) < 20}
             found == RestFindings(e)
         IN  /\ Len(found) = Cardinality(short)
             /\ \A i \in short :
                   LET k == Cardinality({j \in short : j <= i})
                   IN  /\ found[k].affected_date = s[i + 1].date
                       /\ found[k].details.rest_hours = gap(i)
                       /\ is_hard_constraint(found[k])
                       /\ InList(result.violations, found[k])
             /\ \A i \in 1..(Len(s) - 1) :
                   /\ (s[i].shift_type = "2F" /\ s[i + 1].shift_type = "1F"
                         /\ s[i + 1].date = s[i].date + 1) => i \in short
                   /\ (s[i].shift_type = "1F" /\ s[i + 1].shift_type = "2F"
                         /\ s[i + 1].date = s[i].date + 1) => i \notin short

\* the check has run on a schedule where ft works 2F and then 1F the next day
\* (7.5 h apart, flagged) and ca works 2F and then M the next day (exactly
\* 10 h apart, not flagged)
C24_Witness ==
    /\ res_call.op = "check_rest"
    /\ ShiftsInOrder("ft") = <<Assignment("ft", 0, "2F", "Station.KITCHEN", FALSE),
                               Assignment("ft", 1, "1F", "Station.KITCHEN", FALSE)>>
    /\ ShiftsInOrder("ca") = <<Assignment("ca", 0, "2F", "Station.COUNTER", FALSE),
                               Assignment("ca", 1, "M", "Station.COUNTER", FALSE)>>
    /\ Len(result.violations) = 1
    /\ result.violations[1].affected_entity = "ft"
    /\ result.violations[1].affected_date = 1
    /\ ~result.is_compliant


----------------------------------------------------------------------------
(* Claims about the validator's consecutive-days check *)

\* the length of the employee's longest run of consecutive calendar days worked
LongestRun(e) ==
    LET D == {assignments[i].date :
                 i \in {j \in 1..Len(assignments) : assignments[j].employee = e}}
        runs == {n \in 1..(LastWorkDate + 1) :
                    \E d \in D : \A k \in 0..(n - 1) : d + k \in D}
    IN  IF runs = {} THEN 0 ELSE CHOOSE n \in runs : \A m \in runs : m <= n

\* the consecutive-days findings the result holds for the employee
ConsecutiveFindings(e) ==
    SelectSeq(result.violations \o result.warnings,
              LAMBDA v : v.constraint_type = "consecutive" /\ v.affected_entity = e)

\* C25: after the consecutive-days check, the result holds no consecutive-days
\* violation for an employee whose longest run of consecutive calendar days
\* worked is at most 6, and exactly one, carrying the length of that longest
\* run as consecutive_days, for an employee whose longest run is 7 or more.
C25_ConsecutiveDaysCheck ==
    res_call.op = "check_consecutive" =>
      \A e \in RestRoster :
         IF LongestRun(e) <= 6
         THEN ConsecutiveFindings(e) = <<>>
         ELSE /\ Len(ConsecutiveFindings(e)) = 1
              /\ ConsecutiveFindings(e)[1].details.consecutive_days = LongestRun(e)
              /\ InList(result.violations, ConsecutiveFindings(e)[1])

\* the check has run on a schedule in which ft works a run of 7 days after a
\* shorter run and a day off, and was flagged with 7
C25_Witness ==
    /\ res_call.op = "check_consecutive"
    /\ LongestRun("ft") = 7
    /\ \E i \in 1..Len(assignments) :
          assignments[i].employee = "ft" /\ assignments[i].date = 0
    /\ \A i \in 1..Len(assignments) : assignments[i].date # 1
    /\ Len(ConsecutiveFindings("ft")) = 1
    /\ ~result.is_compliant


----------------------------------------------------------------------------
(* Claims about the RateLimiter *)

\* the step is a call of acquire
AcquireCalled ==
    /\ limiter_call'.op = "acquire"
    /\ clock' = clock
    /\ <<granted', denied'>> # <<granted, denied>>

\* the successful acquisitions recorded within the last period_seconds
RecentGrants ==
    {i \in 1..Len(granted) : clock - granted[i] < limiter.period_seconds}

\* the successful acquisitions of the window of period_seconds that starts at w
GrantsInWindow(w) ==
    {i \in 1..Len(granted) :
        w <= granted[i] /\ granted[i] < w + limiter.period_seconds}

\* C26: acquire returns True exactly when fewer than max_calls successful
\* acquisitions lie within the last period_seconds; a refused acquire adds no
\* time to self.calls; at most max_calls acquisitions succeed in any window of
\* period_seconds; and when every recorded acquisition is period_seconds old
\* or older, acquire succeeds again with the full capacity left.
C26_RateLimiterWindow ==
    /\ [][AcquireCalled =>
            /\ limiter_call'.ret = "True"
                  <=> Cardinality(RecentGrants) < limiter.max_calls
            /\ limiter_call'.ret = "False" =>
                  /\ granted' = granted
                  /\ \A i \in 1..Len(limiter'.calls) :
                        InList(limiter.calls, limiter'.calls[i])
                  /\ Len(limiter'.calls) <= Len(limiter.calls)
            /\ RecentGrants = {} =>
                  /\ limiter_call'.ret = "True"
                  /\ limiter'.calls = <<clock>>]_vars
    /\ [](limiter # NoLimiter =>
            \A w \in 0..MaxClock :
               Cardinality(GrantsInWindow(w)) <= limiter.max_calls)

\* a limiter granted max_calls acquisitions, refused the next one in the same
\* window, and after the window granted max_calls acquisitions again
C26_Witness ==
    /\ limiter.max_calls = 2
    /\ limiter_call = [op |-> "acquire", ret |-> "True", left |-> -1]
    /\ Len(granted) = 2 * limiter.max_calls
    /\ granted[1] = granted[2]
    /\ denied # <<>>
    /\ denied[1] - granted[1] < limiter.period_seconds
    /\ granted[3] - granted[1] >= limiter.period_seconds
    /\ granted[4] - granted[3] < limiter.period_seconds


----------------------------------------------------------------------------
(* Claims about retry_with_backoff *)

\* the sleeps a call makes before its first n retries
ExpectedSleeps(n) ==
    [k \in 1..n |-> Min(retry.max_delay,
                        retry.base_delay * Power(retry.exponential_base, k - 1))]

\* C27: a call wrapped by retry_with_backoff invokes the function at most
\* max_retries + 1 times; it returns the result of the first invocation that
\* succeeds, with no invocation after it; before the k-th retry it has slept
\* min(max_delay, base_delay * exponential_base^(k-1)) (1, 2, 4 at the
\* defaults); after the (max_retries + 1)-th matching failure it raises that
\* last failure without another sleep; and a failure of another type is raised
\* at once, without retry or sleep.
C27_RetryWithBackoff ==
    retry.pc # "idle" =>
      /\ retry.invoked <= retry.max_retries + 1
      /\ retry.pc = "loop" =>
            /\ retry.slept = ExpectedSleeps(retry.invoked)
            /\ retry.invoked <= retry.max_retries
      /\ retry.pc = "returned" =>
            /\ retry.returned = retry.invoked
            /\ retry.slept = ExpectedSleeps(retry.invoked - 1)
      /\ (retry.pc = "raised" /\ retry.matching) =>
            /\ retry.invoked = retry.max_retries + 1
            /\ retry.raised = retry.invoked
            /\ retry.slept = ExpectedSleeps(retry.max_retries)
      /\ (retry.pc = "raised" /\ ~retry.matching) =>
            /\ retry.raised = retry.invoked
            /\ retry.slept = ExpectedSleeps(retry.invoked - 1)
      /\ (retry.base_delay = 1 /\ retry.max_delay = 30
            /\ retry.exponential_base = 2 /\ Len(retry.slept) = 3) =>
            retry.slept = <<1, 2, 4>>

\* a call with the default arguments failed four times with a matching
\* exception: it slept 1, 2 and 4 and raised the fourth failure
C27_Witness ==
    /\ retry.pc = "raised" /\ retry.matching
    /\ retry.max_retries = 3 /\ retry.base_delay = 1
    /\ retry.max_delay = 30 /\ retry.exponential_base = 2
    /\ retry.invoked = 4 /\ retry.raised = 4
    /\ retry.slept = <<1, 2, 4>>


----------------------------------------------------------------------------
(* Claims about negotiate_resolution *)

\* the candidates not among the first n proposals sent
NotYetProposed(n) ==
    SelectSeq(nego.proposals,
              LAMBDA p : \A i \in 1..n : nego.sent[i] # p)

----------------------------------------------------------------------------
(* Claims about two calls of StaffMatcherAgent.execute *)

\* C29: with the values of random.uniform held fixed, a second call of
\* StaffMatcherAgent.execute on the same employees, store, forecast and dates
\* returns the same set of assignments as the first and ranked the same
\* candidates in the same order for every (date, shift code, station) slot.
C29_MatcherRunsAgree ==
    twin.pc = "done" =>
       /\ twin.schedule = twin.first.schedule
       /\ twin.rankings = twin.first.rankings

\* both calls have returned, each assigned somebody, and in one slot two
\* candidates were ranked
C29_Witness ==
    /\ twin.pc = "done"
    /\ twin.first.schedule # {}
    /\ Cardinality(twin.schedule) >= 2
    /\ \E i \in 1..Len(twin.rankings) : Len(twin.rankings[i][2]) >= 2

----------------------------------------------------------------------------
(* Claims about Coordinator.execute on the smoke scenario *)

\* the employees with an assignment on date d in the schedule of the run
staff_on(d) == {a.employee : a \in {x \in schedule : x.date = d}}

\* C30: for a store whose two stations each require (normal 2, peak 3) staff
\* and 6 employees who are each available every day for 1F and 2F and
\* skilled for both stations, Coordinator.execute over 14 days with an
\* iteration budget of 5 returns without raising, and the resulting schedule
\* has at least 2 assigned staff on every one of the 14 dates.
C30_SmokeRunStaffsEveryDate ==
    /\ smoke.pc # "raised"
    /\ smoke.pc = "escalated" =>
          \A d \in SmokeDates : Cardinality(staff_on(d)) >= 2

----------------------------------------------------------------------------
(* Claims about the auto-apply branch of the Conflict Resolver *)

\* the last step of the behaviour applied a resolution
Applied == apply_call.resolution # NoResolution

\* C31: _apply_resolution reports success only if the requested change took
\* effect: after a successful swap, remove or modify_station the original
\* assignment is no longer in the schedule, and a swap or modify_station
\* leaves the number of assignments unchanged.  Whenever it reports failure,
\* or the target assignment is locked, the schedule is as it was before the
\* call and the violation is still in the working set.
C31_SuccessMeansChanged ==
    Applied =>
        LET r == apply_call.resolution
            target == Removal(r)
        IN  /\ (apply_call.success /\ target # NoAssignment) =>
                   Count(assignments, target) < Count(apply_call.before, target)
            /\ (apply_call.success /\ r.type \in {"swap", "modify_station"}) =>
                   Len(assignments) = Len(apply_call.before)
            /\ (~apply_call.success \/ target.is_locked) =>
                   /\ assignments = apply_call.before
                   /\ InList(apply_call.violations, apply_call.violation)

----------------------------------------------------------------------------
(* Claims about repeated validation *)

\* what a validation reports, without the time of the check
Outcome(r) == [violations |-> r.violations, warnings |-> r.warnings,
               is_compliant |-> r.is_compliant, score |-> r.score]

\* the last call of execute found the schedule as the call before left it
RevalidatedUnchanged == validation.repeated

\* execute has run and the schedule has not been touched since
JustValidated == validation.calls >= 1 /\ ~validation.changed

\* C32: ComplianceValidator.execute never adds, removes or alters
\* assignments: after a validation the schedule is the list the call found.
\* Validating the same unchanged schedule twice yields the same hard
\* violations, warnings, compliance flag and score.
C32_ValidationIsReadOnly ==
    JustValidated =>
        /\ validation.assignments = validation.found
        /\ RevalidatedUnchanged
              => Outcome(validation.result) = Outcome(validation.previous)

\* a schedule with hard violations and warnings has been validated twice in
\* a row
C32_Witness ==
    /\ JustValidated
    /\ RevalidatedUnchanged
    /\ validation.result.violations # <<>>
    /\ validation.result.warnings # <<>>
    /\ Len(validation.assignments) >= 2

----------------------------------------------------------------------------
(* Claims about the agent's registration on the bus *)

\* C33: for any sequence of startup(), shutdown(), activate() and
\* deactivate() calls on an agent, whenever the agent is active its handler
\* is registered on the message bus under its name, so that a message
\* addressed to it is delivered; in particular after shutdown() followed by
\* startup().
C33_ActiveMeansRegistered ==
    is_active => InList(subscribers, AgentName)

----------------------------------------------------------------------------
(* Claims about the hours bookkeeping of the Staff Matcher *)

\* C34: after StaffMatcher.execute and after any subsequent sequence of
\* update_assignment calls, add_assignment calls and resolutions applied by
\* the Conflict Resolver, the Staff Matcher's bookkeeping of hours per
\* employee and week equals the hours of that employee's assignments
\* currently in the schedule.
C34_BookkeepingMatchesSchedule ==
    (ExecuteReturned /\ ~double_booked) =>
        \A e \in RosterSet, w \in RosterWeeks :
            employee_hours[e][w] = current_hours(schedule, e, w)

----------------------------------------------------------------------------
(* Claims about the hours the resolver's changes leave *)

\* the for loop of ConflictResolver.execute auto-applies a resolution in
\* this step
ResolutionApplied == applied_resolutions' = applied_resolutions + 1

\* employee e holds more than the category maximum in week w
OverMaximum(sched, e, w) == current_hours(sched, e, w) > weekly_hours_target(e)[2]

\* C35: no resolution auto-applied by ConflictResolver.execute (swap,
\* remove, add or modify_station) makes an employee's assigned hours in a
\* schedule week exceed the category maximum if they did not exceed it
\* before that resolution.
C35_ResolutionKeepsWeeklyMaximum ==
    [][ResolutionApplied =>
          \A e \in RosterSet, w \in RosterWeeks :
              OverMaximum(schedule', e, w) => OverMaximum(schedule, e, w)]_vars

\* the violation the step settles is a max-hours violation that is true of
\* the schedule: the employee holds more than the maximum in that week
SettlesHoursViolation ==
    /\ ResolutionApplied
    /\ last_step'.violation.constraint_type = "hours_max"
    /\ OverMaximum(schedule, last_step'.violation.affected_entity,
                   last_step'.violation.details.week - 1)

\* C36: when ConflictResolver.execute applies a resolution for a max-hours
\* violation of employee e in schedule week w, the hours e is assigned in
\* week w are strictly lower after the resolution than before it.
C36_HoursResolutionLowersHours ==
    [][SettlesHoursViolation =>
          current_hours(schedule', last_step'.violation.affected_entity,
                        last_step'.violation.details.week - 1)
          < current_hours(schedule, last_step'.violation.affected_entity,
                          last_step'.violation.details.week - 1)]_vars

----------------------------------------------------------------------------
(* Claims about what a run that returns reports *)

\* what the final validation reported, "none" before it has run
FinalVerdict ==
    IF FinalValidationAt = {} THEN "none"
    ELSE events[CHOOSE i \in FinalValidationAt : TRUE][3]

\* C37: whenever Coordinator.execute returns normally, the hard-violation
\* list of the reported compliance result is empty and the returned success
\* flag is true, whatever the final validation found; a run whose final
\* validation was non-compliant differs from a compliant one in the
\* pending-approvals list, which is then not empty.
C37_ReturnedRunReportsSuccess ==
    pc = "returned" =>
        /\ reported_result.violations = <<>>
        /\ results_of(reported_result).success
        /\ results_of(reported_result).compliance.violations = 0
        /\ (FinalVerdict = "non-compliant")
              <=> (results_of(reported_result).compliance.pending_approvals > 0)

\* a run returns after a final validation that found hard violations
C37_Witness ==
    /\ pc = "returned"
    /\ FinalVerdict = "non-compliant"
    /\ results_of(reported_result).success
    /\ Len(reported_result.pending_approvals) >= 1

----------------------------------------------------------------------------
(* Claims about a broadcast whose handlers call the bus *)

\* the handlers that were registered when the broadcast began, without the
\* sender's
Addressed == reentry.began \ {reentry.sender}

\* C38: during a broadcast a handler may call register, unregister or send
\* on the same bus; the broadcast still completes without raising, no
\* handler that was registered when the broadcast began is invoked twice,
\* and when the broadcast has completed every such handler other than the
\* sender's that was not unregistered meanwhile has been invoked exactly once.
C38_BroadcastSurvivesHandlers ==
    /\ reentry.pc # "raised"
    /\ \A n \in Addressed : Count(reentry.invoked, n) <= 1
    /\ reentry.pc = "done" =>
          \A n \in Addressed \ reentry.gone : Count(reentry.invoked, n) = 1

----------------------------------------------------------------------------
(* Claims about agents whose execute is called again *)

\* the dates of the closed range of the last call of the forecaster
RequestedDates ==
    {d \in ForecastDates : forecaster.start_date <= d /\ d <= forecaster.end_date}

\* C39: for any sequence of DemandForecaster.execute calls on one agent, the
\* forecast returned by a call contains a record for every date in that
\* call's closed range [start_date, end_date] and for no date outside it.
C39_ForecastCoversExactlyTheRange ==
    forecaster.calls >= 1 =>
        /\ DOMAIN forecaster.returned = RequestedDates
        /\ \A d \in RequestedDates : forecaster.returned[d].date = d

\* both the first and the last call of the loader returned a bundle
LoadedAgain ==
    /\ reloader.calls >= 2
    /\ reloader.exc = "none"
    /\ reloader.first # NoBundle

\* C40: calling DataLoader.execute again on the same agent with the same
\* input files returns the same employees, managers and counts as the first
\* call: no employee or manager appears twice and the counts do not grow.
C40_ReloadReturnsTheSame ==
    LoadedAgain =>
        /\ reloader.result = reloader.first
        /\ \A e \in SeqRange(reloader.result.employees) :
              Count(reloader.result.employees, e) = 1
        /\ \A m \in SeqRange(reloader.result.managers) :
              Count(reloader.result.managers, m) = 1
        /\ reloader.result.employee_count <= reloader.first.employee_count
        /\ reloader.result.manager_count <= reloader.first.manager_count

====
